---- MODULE Spec2Model ----
(***************************************************************************)
(* State-machine model of the SEC filing ingestion queue, the ingestion   *)
(* pipeline and the EDGAR client throttle of ai-rag-service.               *)
(*                                                                         *)
(* Spec      : job queue (repositories.py), queue processor (queue.py),    *)
(*             worker loop (sec_worker.py), ingestion (ingestion.py).      *)
(*             Every caller of process_next owns its own database session, *)
(*             so callers interleave at the granularity of committed       *)
(*             database statements and of the awaits inside ingest_filing. *)
(* SpecEdgar : EdgarClient._throttle and the requests that pass it.        *)
(***************************************************************************)
EXTENDS Integers, Sequences, FiniteSets, TLC

(***************************************************************************)
(* Bounds of the model.                                                    *)
(***************************************************************************)
MaxJobs == 2          \* jobs ever enqueued
MaxTime == 6          \* readings of time.monotonic(), in ticks
TicksPerSec == 2      \* resolution of the monotonic clock of the model
MaxSize == 1          \* greatest size of a file of a filing directory
MaxCalls == 2         \* calls of the EdgarClient methods on one accession number
MaxTextLen == 6       \* length of the text given to the DocumentProcessor
MaxChunkSize == 4     \* greatest chunk_size
MaxOverlap == 2       \* greatest chunk_overlap
MaxBatch == 2         \* documents of one add_documents call
MaxRows == 3          \* documents that a vector store holds
MaxTopK == 2          \* greatest top_k of a search
MaxResults == 3       \* results that the index holds for a question
MaxWindow == 4        \* greatest context_window of the pipeline
MaxTicks == 4         \* readings of time.monotonic() by the RateLimiter
MaxAllows == 3        \* calls of RateLimiter.allow
MaxAuths == 2         \* calls of require_api_key
MaxNow == 2           \* readings of datetime.utcnow() by _is_db_key_valid
MaxPieces == 4        \* pieces that a filing text is put together from
MaxEvents == 3        \* events of one provider stream before it ends or fails

(***************************************************************************)
(* The callers of process_next: worker processes (scripts/sec_worker.py)   *)
(* and the /sec/ingest/queue/process-next route, each with its own         *)
(* session.  Together they make as many claims as there are callers.       *)
(***************************************************************************)
Workers == {"w1", "w2"}
MaxClaims == Cardinality(Workers)

NoJob == 0
NoTime == -1
NoDoc == 0
NoError == "none"

\* Inputs of POST /sec/ingest/queue: a raw cik, an accession number and a
\* form type.
EnqueueRequests ==
    { [cik |-> <<3, 2, 0, 1, 9, 3>>, accession_number |-> "0001193125-24-012345",
       form_type |-> "10-K"],
      [cik |-> <<0, 0, 0, 0, 7, 8, 9, 0, 1, 9>>, accession_number |-> "0000789019-24-000007",
       form_type |-> "10-Q"] }

\* A request whose accession number has the length that the request schemas
\* ask for (10 to 25 characters) and is no accession number.
MalformedRequests ==
    { [cik |-> <<4, 2>>, accession_number |-> "../../etc/passwd", form_type |-> "8-K"] }

Accessions == {r.accession_number : r \in EnqueueRequests \cup MalformedRequests}

\* datetime.utcnow() takes enough values to give every job its own created_at.
MaxClock == MaxJobs - 1

\* The number of chunks that the body of each filing is split into.
ChunksOf(a) == IF a = "0001193125-24-012345" THEN 1 ELSE 2

\* The messages of the exceptions that the steps of ingest_filing can raise.
IngestErrors ==
    {"download", "parse", "create_document", "chunk", "embed", "add_documents",
     "update_document", "commit", "refresh", "Invalid accession number format"}

VARIABLES
    now,            \* datetime.utcnow()
    jobs,           \* table sec_ingestion_jobs, in insertion order (index = id)
    companies,      \* table sec_companies: the padded ciks present
    filings,        \* table sec_filings, keyed by accession number
    documents,      \* table documents, in insertion order (index = id)
    index,          \* the vector store: the chunk ids it holds
    cache,          \* SEC_CACHE_DIR: accession numbers with a cached body
    pc,             \* position of each caller of process_next
    sel,            \* claim_next_pending: the row read by the SELECT
    job,            \* process_next: the job that claim_next_pending returned
    doc,            \* ingest_filing: db_document.id
    nchunks,        \* ingest_filing: len(chunks)
    err,            \* the message of the exception in flight
    ret,            \* the last value process_next returned
    result,         \* the Filing that the last ingest_filing returned
    effects,        \* history: side effects of the current ingest_filing call
    claimCount,     \* history: number of claim_next_pending calls that returned job j
    mono,           \* time.monotonic(), in ticks
    rate2,          \* SEC_RATE_LIMIT_PER_SEC, in half requests per second
    last_request_ts,\* EdgarClient._last_request_ts, in ticks
    prevStart,      \* history: start of the request before the last one
    lastStart,      \* history: start of the last request
    lastKind,       \* history: kinds of the last two requests
    last_ts,        \* _last_request_ts of every EdgarClient of the process
    task,           \* position of every task of the event loop
    wake,           \* end of the time.sleep that the thread is in
    accession,      \* the accession_number argument of the EdgarClient calls
    archive,        \* the directory listing of the filing in the archive
    files,          \* SEC_CACHE_DIR: the set of <<path, body>>
    dpc,            \* position of the EdgarClient call
    candidates,     \* download_primary_filing_html: candidates
    cand,           \* download_primary_filing_html: place of candidate in candidates
    html,           \* the value that the call returned
    derr,           \* the error that the call raised
    calls,          \* number of calls made so far
    trace,          \* history: paths built, files read and written, requests sent
    firstBody,      \* history: the body that the first successful download returned
    text,           \* DocumentProcessor: the text to chunk
    chunk_size,     \* DocumentProcessor.chunk_size
    chunk_overlap,  \* DocumentProcessor.chunk_overlap
    cpc,            \* position of the chunking call
    chunks,         \* the list chunks of the chunking functions
    start,          \* _chunk_fixed: start
    parts,          \* history: the sentences, or the window, that each chunk was made of
    processed,      \* process_text: result
    provider,       \* VECTOR_STORE_PROVIDER
    table,          \* the rows of document_chunks, or of the collection, as inserted
    vcall,          \* the last call of a method of the vector store
    vret,           \* what that call returned or raised
    live,           \* history: <<id, content>> of the documents added and not deleted since
    config,         \* app/core/config.py
    llm_client,     \* llm_router._llm_client
    embedding_model,\* embedding_router._embedding_model
    gcall,          \* the last call of a gateway function
    gret,           \* what that call returned or raised
    pipeline_top_k, \* rag_router.rag_pipeline.top_k
    context_window, \* rag_router.rag_pipeline.context_window
    ranking,        \* what the vector store holds for the questions
    rag,            \* the rag_query calls
    worker,         \* position of run_worker
    max_requests,   \* RateLimiter.max_requests
    window_seconds, \* RateLimiter.window_seconds, in ticks of time.monotonic()
    monotonic,      \* time.monotonic() as RateLimiter.allow reads it, in ticks
    buckets,        \* RateLimiter._requests: the deque of every identifier
    allowing,       \* position of the allow call of every thread
    verdicts,       \* history: the allow calls that have returned, in order of return
    DEBUG,          \* config.DEBUG
    API_KEY,        \* config.API_KEY; <<>> stands for None and for ""
    api_keys,       \* table api_keys
    utcnow,         \* datetime.utcnow() as _is_db_key_valid reads it
    auth,           \* history: the last call of require_api_key and its outcome
    filing_text,    \* extract_sections: text
    sections,       \* extract_sections: the list returned
    ppc,            \* position of the extract_sections call
    filing_hits,    \* ResearchAgent.run: search_results
    include_compare,\* ResearchAgent.run: include_compare
    apc,            \* position of the run call
    ingested,       \* ResearchAgent.run: ingested
    attempted,      \* history: the accession numbers ingest_filing was called with
    rag_result,     \* ResearchAgent.run: rag_result
    compare_result, \* ResearchAgent.run: compare_result
    stream_client,  \* ask_stream: provider_name of llm_client
    spc,            \* position of generate
    stream_model,   \* generate: model_name
    events,         \* number of events the provider's stream has delivered
    sse,            \* history: the fragments generate has yielded
    stream_error    \* str(e) of the exception generate caught

queueVars == <<now, jobs, companies, filings, documents, index, cache, pc, sel, job,
               doc, nchunks, err, ret, result, effects, claimCount>>
edgarVars == <<mono, rate2, last_request_ts, prevStart, lastStart, lastKind>>
processVars == <<last_ts, task, wake>>
downloadVars == <<accession, archive, files, dpc, candidates, cand, html, derr, calls,
                  trace, firstBody>>
chunkVars == <<text, chunk_size, chunk_overlap, cpc, chunks, start, parts, processed>>
storeVars == <<provider, table, vcall, vret, live>>
ragVars == <<config, llm_client, embedding_model, gcall, gret, pipeline_top_k,
             context_window, ranking, rag>>
workerVars == <<worker>>
limiterVars == <<max_requests, window_seconds, monotonic, buckets, allowing, verdicts>>
securityVars == <<DEBUG, API_KEY, api_keys, utcnow, auth>>
parserVars == <<filing_text, sections, ppc>>
agentVars == <<filing_hits, include_compare, apc, ingested, attempted, rag_result, compare_result>>
streamVars == <<stream_client, spc, stream_model, events, sse, stream_error>>
nonQueueVars == <<edgarVars, processVars, downloadVars, chunkVars, storeVars, ragVars,
                  workerVars, limiterVars, securityVars, parserVars, agentVars,
                  streamVars>>
nonEdgarVars == <<queueVars, processVars, downloadVars, chunkVars, storeVars, ragVars,
                  workerVars, limiterVars, securityVars, parserVars, agentVars,
                  streamVars>>
nonDownloadVars == <<queueVars, edgarVars, processVars, chunkVars, storeVars, ragVars,
                     workerVars, limiterVars, securityVars, parserVars, agentVars,
                     streamVars>>
nonChunkVars == <<queueVars, edgarVars, processVars, downloadVars, storeVars, ragVars,
                  workerVars, limiterVars, securityVars, parserVars, agentVars,
                  streamVars>>
nonStoreVars == <<queueVars, edgarVars, processVars, downloadVars, chunkVars, ragVars,
                  workerVars, limiterVars, securityVars, parserVars, agentVars,
                  streamVars>>
nonRagVars == <<queueVars, edgarVars, processVars, downloadVars, chunkVars, storeVars,
                workerVars, limiterVars, securityVars, parserVars, agentVars,
                streamVars>>
nonWorkerVars == <<queueVars, edgarVars, processVars, downloadVars, chunkVars,
                   storeVars, ragVars, limiterVars, securityVars, parserVars,
                   agentVars, streamVars>>
nonLimiterVars == <<queueVars, edgarVars, processVars, downloadVars, chunkVars,
                    storeVars, ragVars, workerVars, securityVars, parserVars,
                    agentVars, streamVars>>
nonSecurityVars == <<queueVars, edgarVars, processVars, downloadVars, chunkVars,
                     storeVars, ragVars, workerVars, limiterVars, parserVars,
                     agentVars, streamVars>>
nonParserVars == <<queueVars, edgarVars, processVars, downloadVars, chunkVars,
                   storeVars, ragVars, workerVars, limiterVars, securityVars,
                   agentVars, streamVars>>
nonAgentVars == <<queueVars, edgarVars, processVars, downloadVars, chunkVars,
                  storeVars, ragVars, workerVars, limiterVars, securityVars,
                  parserVars, streamVars>>
nonStreamVars == <<queueVars, edgarVars, processVars, downloadVars, chunkVars,
                   storeVars, ragVars, workerVars, limiterVars, securityVars,
                   parserVars, agentVars>>
vars == <<queueVars, edgarVars, processVars, downloadVars, chunkVars, storeVars,
          ragVars, workerVars, limiterVars, securityVars, parserVars, agentVars,
          streamVars>>

(***************************************************************************)
(* Helpers.                                                                *)
(***************************************************************************)
Max(a, b) == IF a >= b THEN a ELSE b

\* str(cik).zfill(10): pad with zeros on the left up to ten digits.
RECURSIVE Zfill10(_)
Zfill10(c) == IF Len(c) >= 10 THEN c ELSE Zfill10(<<0>> \o c)

JobIds == 1..Len(jobs)

(***************************************************************************)
(* SECIngestionJobRepository                                               *)
(***************************************************************************)
\* SECIngestionJob(... status="pending"), column defaults attempts=0,
\* created_at=datetime.utcnow.
NewJob(r, t) ==
    [cik |-> r.cik, accession_number |-> r.accession_number, form_type |-> r.form_type,
     status |-> "pending", attempts |-> 0, created_at |-> t, started_at |-> NoTime,
     finished_at |-> NoTime,
     error_message |-> NoError]

\* .filter(SECIngestionJob.status == "pending")
PendingJobs == {j \in JobIds : jobs[j].status = "pending"}

C9_NewestPending ==
    {j \in PendingJobs : \A k \in PendingJobs : jobs[j].created_at >= jobs[k].created_at}

\* .order_by(SECIngestionJob.created_at).first(): a pending row with the least
\* created_at; among rows with equal created_at the database picks any.
FirstPending ==
    {j \in PendingJobs : \A k \in PendingJobs : jobs[j].created_at <= jobs[k].created_at}

C8_ClaimedRowKeepsStatus(row, attempts, t) ==
    [row EXCEPT !.attempts = attempts + 1, !.started_at = t]

\* job.status = "running"; job.attempts = (job.attempts or 0) + 1;
\* job.started_at = datetime.utcnow(): attempts is the value the SELECT read.
ClaimedRow(row, attempts, t) ==
    [row EXCEPT !.status = "running", !.attempts = attempts + 1, !.started_at = t]

C39_CompletedRowClearsStart(row, t) ==
    [row EXCEPT !.status = "completed", !.finished_at = t, !.started_at = NoTime]

\* mark_completed
CompletedRow(row, t) == [row EXCEPT !.status = "completed", !.finished_at = t]

C6_FailedRowNoMessage(row, message, t) ==
    [row EXCEPT !.status = "failed", !.finished_at = t]

\* mark_failed
FailedRow(row, message, t) ==
    [row EXCEPT !.status = "failed", !.error_message = message, !.finished_at = t]

(***************************************************************************)
(* SECFilingIngestionService                                               *)
(***************************************************************************)
NoFiling == [id |-> 0, status |-> "none", document_id |-> NoDoc]

C3_NeverIndexed(f) == f.id # 0 /\ f.status = "completed"

\* existing and existing.status == "indexed"
AlreadyIndexed(f) == f.id # 0 /\ f.status = "indexed"

C4_NewFilingDefaultStatus(id) == [id |-> id, status |-> "discovered", document_id |-> NoDoc]

\* SECFiling(..., status="downloading", ...)
NewFiling(id) == [id |-> id, status |-> "downloading", document_id |-> NoDoc]

NextFilingId == Cardinality({a \in Accessions : filings[a].id # 0}) + 1

\* filing.document_id = db_document.id; filing.status = "indexed"
IndexedFiling(f, d) == [f EXCEPT !.document_id = d, !.status = "indexed"]

\* DocumentRepository.create_document(..., status="processing"), chunks_count=0
NewDocument(a) == [filename |-> a, status |-> "processing", chunks_count |-> 0]

\* DocumentRepository.update_document(status="completed", chunks_count=len(chunks))
CompletedDocument(d, n) == [d EXCEPT !.status = "completed", !.chunks_count = n]

\* chunk_id = f"{db_document.id}_chunk_{i}" for i in range(len(chunks))
ChunkIds(d, n) == {<<d, i>> : i \in 0..(n - 1)}

\* The claim_next_pending calls that have found a pending job so far.
ClaimsStarted ==
    Cardinality({w \in Workers : pc[w] = "selected"})
    + Cardinality({j \in JobIds : claimCount[j] >= 1})
    + Cardinality({j \in JobIds : claimCount[j] >= 2})

AccessionOf(w) == jobs[job[w]].accession_number

(***************************************************************************)
(* EdgarClient.  Time is counted in ticks of 1/TicksPerSec seconds and     *)
(* rates in half requests per second, so that a rate r/2 has the interval  *)
(* 2 * TicksPerSec / r ticks.                                              *)
(***************************************************************************)
\* The values of SEC_RATE_LIMIT_PER_SEC: 0.5, 1 and 2 requests per second.
RateLimits2 == {1, 2, 4}

RequestKinds == {"search", "index", "document"}

\* self._rate_limit = max(1.0, SEC_RATE_LIMIT_PER_SEC)
RateLimit2(configured2) == Max(2, configured2)

CeilDiv(a, b) == (a + b - 1) \div b

C10_NoSleep(elapsed, r2) == 0

\* _throttle: if elapsed < min_interval: time.sleep(min_interval - elapsed),
\* with min_interval = 1.0 / self._rate_limit; the sleep ends at the first
\* tick that is not before its end.
SleepTicks(elapsed, r2) ==
    IF elapsed * r2 < 2 * TicksPerSec
    THEN CeilDiv(2 * TicksPerSec - elapsed * r2, r2)
    ELSE 0

(***************************************************************************)
(* EdgarClient: accession numbers, file listings and the choice of the     *)
(* primary document.  Strings are sequences of characters.                 *)
(***************************************************************************)
\* re.compile(r"^[0-9-]{10,25}$"): the least and the greatest length.
MinAccessionLen == 10
MaxAccessionLen == 25

Digits == {"0", "1", "2", "3", "4", "5", "6", "7", "8", "9"}

\* Characters that the pattern does not allow: separators, a dot, a letter,
\* a blank and a line feed.
OtherChars == {"/", "\\", ".", "a", " ", "\n"}

\* s[from:] for a 1-based from.
Tail2(s, from) == SubSeq(s, from, Len(s))

\* sub in s
Contains(s, sub) ==
    \E i \in 1..(Len(s) - Len(sub) + 1) : SubSeq(s, i, i + Len(sub) - 1) = sub

\* s.endswith(suffix)
EndsWith(s, suffix) ==
    Len(s) >= Len(suffix) /\ Tail2(s, Len(s) - Len(suffix) + 1) = suffix

\* self._accession_pattern.fullmatch(accession_number): the whole string is
\* 10 to 25 characters of the class [0-9-].
PatternFullMatch(s) ==
    /\ Len(s) >= MinAccessionLen
    /\ Len(s) <= MaxAccessionLen
    /\ \A i \in 1..Len(s) : s[i] \in Digits \cup {"-"}

C13_SanitizeAcceptsByLength(s) == Len(s) >= MinAccessionLen /\ Len(s) <= MaxAccessionLen

\* _sanitize_accession returns its argument (TRUE) or raises ValueError
\* (FALSE).
SanitizeAccepts(s) ==
    /\ s # <<>>
    /\ PatternFullMatch(s)
    /\ ~\E sep \in {<<"/">>, <<"\\">>, <<".", ".">>} : Contains(s, sep)

\* accession_number.replace("-", "")
IsNoDash(c) == c # "-"
NoDash(s) == SelectSeq(s, IsNoDash)

\* os.path.join(SEC_CACHE_DIR, f"{accession_number}.html")
CachePath(s) == <<<<"c", "a", "c", "h", "e">>, s \o <<".", "h", "t", "m", "l">>>>

\* .../Archives/edgar/data/{cik}/{accession_no_nodash}/index.json
IndexUrl(s) == <<<<"i", "n", "d", "e", "x", ".", "j", "s", "o", "n">>, NoDash(s)>>

\* .../Archives/edgar/data/{cik}/{accession_no_nodash}/{candidate}
DocumentUrl(s, name) == <<name, NoDash(s)>>

Fill(n, c) == [i \in 1..n |-> c]

Patch(s, p, x) == [s EXCEPT ![p] = x]

\* Lengths at and next to the two ends of the pattern's range.
AccessionLengths ==
    {0, 1, MinAccessionLen - 1, MinAccessionLen, MaxAccessionLen, MaxAccessionLen + 1}

\* "../../etc/passwd", "abc", "0001193125-24-012345", "0000789019-24-000007"
NamedAccessions ==
    { <<".", ".", "/", ".", ".", "/", "e", "t", "c", "/", "p", "a", "s", "s", "w", "d">>,
      <<"a", "b", "c">>,
      <<"0", "0", "0", "1", "1", "9", "3", "1", "2", "5", "-", "2", "4", "-", "0", "1", "2", "3", "4", "5">>,
      <<"0", "0", "0", "0", "7", "8", "9", "0", "1", "9", "-", "2", "4", "-", "0", "0", "0", "0", "0", "7">> }

\* The values passed as accession_number: the named ones, runs of one
\* allowed character, and runs of "0" with one character outside the class.
AccessionInputs ==
    NamedAccessions
    \cup {Fill(n, c) : n \in AccessionLengths, c \in {"0", "-"}}
    \cup UNION {{Patch(Fill(n, "0"), p, x) : p \in 1..n, x \in OtherChars} :
                   n \in AccessionLengths}

\* The accession numbers of the ingestion requests, as character sequences.
AccessionChars(a) ==
    CASE a = "0001193125-24-012345" -> <<"0", "0", "0", "1", "1", "9", "3", "1", "2", "5", "-", "2", "4", "-", "0", "1", "2", "3", "4", "5">>
      [] a = "0000789019-24-000007" -> <<"0", "0", "0", "0", "7", "8", "9", "0", "1", "9", "-", "2", "4", "-", "0", "0", "0", "0", "0", "7">>
      [] a = "../../etc/passwd" -> <<".", ".", "/", ".", ".", "/", "e", "t", "c", "/", "p", "a", "s", "s", "w", "d">>

\* str.lower() on the characters that file names use.
LowerChar(c) ==
    CASE c = "H" -> "h" [] c = "T" -> "t" [] c = "M" -> "m" [] c = "L" -> "l"
      [] c = "R" -> "r" [] c = "I" -> "i" [] OTHER -> c

Lower(s) == [i \in 1..Len(s) |-> LowerChar(s[i])]

\* Names of the files of a filing directory: "a.htm", "R2.HTML",
\* "Index.htm", "f.txt", "p.jpg".
FileNames ==
    << <<"a", ".", "h", "t", "m">>,
       <<"R", "2", ".", "H", "T", "M", "L">>,
       <<"I", "n", "d", "e", "x", ".", "h", "t", "m">>,
       <<"f", ".", "t", "x", "t">>,
       <<"p", ".", "j", "p", "g">> >>

\* lower_name.endswith((".htm", ".html"))
IsHtml(item) ==
    \/ EndsWith(Lower(item.name), <<".", "h", "t", "m">>)
    \/ EndsWith(Lower(item.name), <<".", "h", "t", "m", "l">>)

\* elif lower_name.endswith(".txt")
IsTxt(item) == ~IsHtml(item) /\ EndsWith(Lower(item.name), <<".", "t", "x", "t">>)

\* "index" not in item.get("name", "").lower()
IsNonIndex(item) == ~Contains(Lower(item.name), <<"i", "n", "d", "e", "x">>)

C15_SortedAsListed(items) == items

\* sorted(items_list, key=lambda i: i.get("size", 0), reverse=True): a stable
\* sort, so items of equal size keep the order of the listing.  The item at
\* place i goes behind every greater item and every equal item before it.
SortedBySize(items) ==
    LET rank(i) == Cardinality({j \in 1..Len(items) : items[j].size > items[i].size})
                   + Cardinality({j \in 1..i : items[j].size = items[i].size})
    IN [r \in 1..Len(items) |-> items[CHOOSE i \in 1..Len(items) : rank(i) = r]]

NamesOf(items) == [i \in 1..Len(items) |-> items[i].name]

IsName(name) == name # <<>>

\* Lines 152-173: the candidate names, in the order of the attempts.
Candidates(items) ==
    LET html_items == SelectSeq(items, IsHtml)
        txt_items == SelectSeq(items, IsTxt)
        non_index_html == SelectSeq(html_items, IsNonIndex)
    IN SelectSeq(NamesOf(SortedBySize(non_index_html))
                   \o NamesOf(SortedBySize(txt_items))
                   \o NamesOf(SortedBySize(html_items)), IsName)

\* The directory listings ("directory" / "item" of index.json): each file
\* name is absent or present with a size (0 also stands for a missing
\* size).
Absent == -1

IsPresent(item) == item.size # Absent

ListingOf(f) ==
    SelectSeq([i \in 1..Len(FileNames) |-> [name |-> FileNames[i], size |-> f[i]]],
              IsPresent)

Listings == {ListingOf(f) : f \in [1..Len(FileNames) -> {Absent} \cup 0..MaxSize]}

\* The listing is not known before the first answer to an index request.
NoListing == <<[name |-> <<>>, size |-> Absent]>>
NoBody == <<>>

\* response.text of a document of the archive.
BodyOf(name) == <<"body", name>>

\* The answers of the archive to a request: 200, 404, another error status
\* (raise_for_status raises HTTPStatusError), or no answer (httpx raises a
\* transport error).
Statuses == {"200", "404", "500", "timeout"}

\* One entry of the history of a call.
Event(op, arg, status) == [op |-> op, arg |-> arg, status |-> status]

(***************************************************************************)
(* DocumentProcessor: chunking.  A text is a sequence of characters.       *)
(***************************************************************************)
\* The characters of the texts: a letter, a sentence end and a blank.
TextChars == {"a", ".", " "}

\* The passes of the loop of _chunk_fixed that are followed: a call that
\* returns moves start forward in every pass, so it makes no more passes than
\* the text has characters.
MaxChunks == MaxTextLen + 1

Texts == UNION {[1..n -> TextChars] : n \in 0..MaxTextLen}

IsSpace(c) == c = " "

IsSentenceEnd(c) == c \in {".", "!", "?"}

Min(a, b) == IF a <= b THEN a ELSE b

\* str.strip()
RECURSIVE Strip(_)
Strip(s) ==
    IF s = <<>> THEN s
    ELSE IF IsSpace(s[1]) THEN Strip(SubSeq(s, 2, Len(s)))
    ELSE IF IsSpace(s[Len(s)]) THEN Strip(SubSeq(s, 1, Len(s) - 1))
    ELSE s

\* re.split(r'(?<=[.!?])\s+', text) from the 1-based place i on, with piece
\* the characters of the current piece: a match is a run of blanks that
\* begins right behind a sentence end, and it is as long as it can be.
RECURSIVE SplitFrom(_, _, _)
SplitFrom(t, i, piece) ==
    IF i > Len(t) THEN <<piece>>
    ELSE IF IsSpace(t[i]) /\ i > 1 /\ IsSentenceEnd(t[i - 1])
    THEN LET blanks == {j \in i..Len(t) : \A k \in i..j : IsSpace(t[k])}
             after == i + Cardinality(blanks)
         IN <<piece>> \o SplitFrom(t, after, <<>>)
    ELSE SplitFrom(t, i + 1, Append(piece, t[i]))

IsSentence(s) == s # <<>>

\* Lines 81 and 87-90: the stripped pieces that are not empty.
Sentences(t) ==
    LET pieces == SplitFrom(t, 1, <<>>)
    IN SelectSeq([i \in 1..Len(pieces) |-> Strip(pieces[i])], IsSentence)

\* " ".join(current_chunk)
RECURSIVE Join(_)
Join(ss) ==
    IF ss = <<>> THEN <<>>
    ELSE IF Len(ss) = 1 THEN ss[1]
    ELSE ss[1] \o <<" ">> \o Join(SubSeq(ss, 2, Len(ss)))

\* sum(len(s) for s in ss)
RECURSIVE SumLen(_)
SumLen(ss) == IF ss = <<>> THEN 0 ELSE Len(ss[1]) + SumLen(SubSeq(ss, 2, Len(ss)))

C20_NoOverlap(current_chunk, overlap) == <<>>

\* Lines 99-106: the sentences of current_chunk, taken from its end for as
\* long as their lengths add up to at most the overlap.
OverlapSentences(current_chunk, overlap) ==
    LET n == Len(current_chunk)
        fits(k) == SumLen(SubSeq(current_chunk, n - k + 1, n)) <= overlap
        k == Cardinality({j \in 1..n : \A i \in 1..j : fits(i)})
    IN SubSeq(current_chunk, n - k + 1, n)

\* Lines 87-117: the loop over the sentences from place i on; the result is
\* the list of chunks, each one as the list of its sentences.
RECURSIVE SentenceLoop(_, _, _, _, _, _, _)
SentenceLoop(sentences, i, done, current_chunk, current_size, size, overlap) ==
    IF i > Len(sentences)
    THEN IF current_chunk # <<>> THEN Append(done, current_chunk) ELSE done
    ELSE LET sentence == sentences[i]
             sentence_size == Len(sentence)
         IN IF current_size + sentence_size > size /\ current_chunk # <<>>
            THEN LET overlap_sentences == OverlapSentences(current_chunk, overlap)
                 IN SentenceLoop(sentences, i + 1, Append(done, current_chunk),
                                 Append(overlap_sentences, sentence),
                                 SumLen(overlap_sentences) + sentence_size + 1,
                                 size, overlap)
            ELSE SentenceLoop(sentences, i + 1, done, Append(current_chunk, sentence),
                              current_size + sentence_size + 1, size, overlap)

\* _chunk_by_sentence, with every chunk as the list of its sentences.
SentenceChunks(t, size, overlap) ==
    SentenceLoop(Sentences(t), 1, <<>>, <<>>, 0, size, overlap)

\* text[a:b] with Python's reading of negative and of too great indices.
PySlice(t, a, b) ==
    LET from == IF a < 0 THEN Max(Len(t) + a, 0) ELSE Min(a, Len(t))
        to == IF b < 0 THEN Max(Len(t) + b, 0) ELSE Min(b, Len(t))
    IN SubSeq(t, from + 1, to)

\* chunk.rfind(' '): the greatest 0-based place of a blank, or -1.
RFindSpace(chunk) ==
    LET at == {i \in 1..Len(chunk) : IsSpace(chunk[i])}
    IN IF at = {} THEN -1 ELSE (CHOOSE i \in at : \A j \in at : j <= i) - 1

\* Lines 141-149: the window that begins at start: text[start:start + size],
\* cut at its last blank when the text goes on behind the window and the
\* blank lies in the second half of it.
BacksOff(t, from, size) ==
    from + size < Len(t) /\ 2 * RFindSpace(PySlice(t, from, from + size)) > size

WindowEnd(t, from, size) ==
    IF BacksOff(t, from, size)
    THEN from + RFindSpace(PySlice(t, from, from + size))
    ELSE from + size

WindowChunk(t, from, size) ==
    LET chunk == PySlice(t, from, from + size)
    IN IF BacksOff(t, from, size) THEN SubSeq(chunk, 1, RFindSpace(chunk)) ELSE chunk

\* a or b of Python, for integers.
Or(a, b) == IF a # 0 THEN a ELSE b

\* Lines 119-125 and 134-135: the size and the overlap of _chunk_fixed;
\* _chunk_by_tokens passes four times those of the processor.
FixedSize(strategy, size) ==
    IF strategy = "token" THEN Or(size * 4, size) ELSE size

FixedOverlap(strategy, overlap) ==
    IF strategy = "token" THEN Or(overlap * 4, overlap) ELSE overlap

C19_NextStartSkips(end, overlap) == end - overlap + 1

\* Line 154: start = end - overlap
NextStart(end, overlap) == end - overlap

(***************************************************************************)
(* The vector stores: PgVectorStore (table document_chunks) and            *)
(* ChromaVectorStore (one collection).                                     *)
(***************************************************************************)
Providers == {"pgvector", "chroma"}

None == "None"
NoEmbedding == <<>>     \* Document.embedding is None or []
NoDate == 0             \* no filed_date: None in Python, NULL in the table
BadDate == -1           \* a filed_date that datetime.fromisoformat rejects
Dates == 1..3           \* the filed dates, in the order of the calendar

\* Strings that uuid.UUID accepts: two spellings of one chunk id, the id of a
\* row of the table documents, and the values that the column default
\* uuid4 of document_chunks.id draws.
CanonicalUuid == "0c0ffee0-0000-4000-8000-000000000001"
UpperUuid == "0C0FFEE0-0000-4000-8000-000000000001"
DocumentUuid == "0d0c0000-0000-4000-8000-000000000001"
Uuid4s == <<"uuid4-a", "uuid4-b", "uuid4-c", "uuid4-d", "uuid4-e", "uuid4-f">>

\* uuid.UUID(value) succeeds; a UUID is stood for by str(UUID), its
\* lower-case spelling.
IsUuid(value) ==
    value \in {CanonicalUuid, UpperUuid, DocumentUuid} \cup {Uuid4s[i] : i \in 1..Len(Uuid4s)}

UuidOf(value) == IF value = UpperUuid THEN CanonicalUuid ELSE value

\* dict.get(key), with None for a missing key.
Get(d, key) == IF key \in DOMAIN d THEN d[key] ELSE None

GetDate(d, key) == IF key \in DOMAIN d THEN d[key] ELSE NoDate

\* pgvector_store.py lines 48-59: the column filed_date of a chunk.
FiledDate(metadata) ==
    IF GetDate(metadata, "filed_date") \in Dates
    THEN GetDate(metadata, "filed_date") ELSE NoDate

\* The metadata that ingest_filing (ingestion.py lines 94-121) and the upload
\* route (documents_router.py lines 100-137) give to their chunks, and one
\* without document_id.
Metadatas ==
    { [document_id |-> DocumentUuid, source_type |-> "sec_filing", form_type |-> "10-K",
       filed_date |-> 1, filing_section |-> "Item 1"],
      [document_id |-> DocumentUuid, source_type |-> "sec_filing", form_type |-> "10-Q",
       filed_date |-> 2, filing_section |-> "Item 7"],
      [document_id |-> DocumentUuid, source_type |-> "sec_filing", form_type |-> "10-K",
       filed_date |-> 3, filing_section |-> "Item 7"],
      [document_id |-> DocumentUuid, source_type |-> "sec_filing", form_type |-> "10-K",
       filed_date |-> BadDate, filing_section |-> "Item 7"],
      [source_type |-> "sec_filing", form_type |-> "10-K",
       filed_date |-> 2, filing_section |-> "Item 1"] }

\* Embeddings and query vectors, and the distance that the backend computes
\* between two of them (cosine distance in pgvector, L2 in Chroma).
Vectors == {<<0>>, <<1>>, <<2>>}

Distance(a, b) == IF a[1] >= b[1] THEN a[1] - b[1] ELSE b[1] - a[1]

\* base.Document
Document(id, content, metadata, embedding) ==
    [id |-> id, content |-> content, metadata |-> metadata, embedding |-> embedding]

\* The ids that callers give: "<document id>_chunk_<i>" (ingestion.py line
\* 112, documents_router.py line 132) and UUID strings.
CallerIds == {"doc_chunk_0", "doc_chunk_1", CanonicalUuid, UpperUuid}

\* The documents that callers add.
Documents ==
    LET m(form, day) == CHOOSE x \in Metadatas :
                            /\ "document_id" \in DOMAIN x
                            /\ x.form_type = form
                            /\ x.filed_date = day
        nodoc == CHOOSE x \in Metadatas : "document_id" \notin DOMAIN x
    IN { Document("doc_chunk_0", "alpha", m("10-K", 1), <<0>>),
         Document("doc_chunk_1", "beta", m("10-Q", 2), <<1>>),
         Document(CanonicalUuid, "gamma", m("10-K", 3), <<2>>),
         Document(UpperUuid, "delta", m("10-K", BadDate), <<2>>),
         Document("doc_chunk_1", "epsilon", m("10-Q", 2), NoEmbedding),
         Document("doc_chunk_0", "zeta", nodoc, <<1>>) }

Batches == UNION {[1..n -> Documents] : n \in 0..MaxBatch}

\* The filters of search: none, those that rag_router.py (lines 71-83),
\* research_agent.py (lines 67-73) and comparator.py build, and one on a
\* metadata key that is no column filter of PgVectorStore.search.
NoFilter == [k \in {} |-> None]

Filters ==
    { NoFilter,
      "form_type" :> "10-K",
      ("form_type" :> "10-K") @@ ("source_type" :> "sec_filing"),
      ("filed_date_from" :> 2) @@ ("source_type" :> "sec_filing"),
      ("filed_date_from" :> 1) @@ ("filed_date_to" :> 2),
      "document_id" :> DocumentUuid,
      "filing_section" :> "Item 7" }

\* Scores are fractions <<numerator, denominator>> with denominator > 0.
ScoreGeq(a, b) == a[1] * b[2] >= b[1] * a[2]

C24_ScoreIsDistance(distance) == <<distance, 1>>

\* pgvector_store.py line 129: score = 1.0 - float(distance)
PgScore(distance) == <<1 - distance, 1>>

\* chroma_store.py line 102: score = 1.0 / (1.0 + distance)
ChromaScore(distance) == <<1, 1 + distance>>

\* pgvector_store.py lines 34-45: the ValueError that a document of a batch
\* raises, or NoError.
PgAddError(document) ==
    IF document.embedding = NoEmbedding THEN "ValueError: missing embedding"
    ELSE IF Get(document.metadata, "document_id") = None
         THEN "ValueError: missing document_id in metadata"
    ELSE IF ~IsUuid(Get(document.metadata, "document_id"))
         THEN "ValueError: badly formed hexadecimal UUID string"
    ELSE NoError

\* chroma_store.py lines 54-55
ChromaAddError(document) ==
    IF document.embedding = NoEmbedding THEN "ValueError: missing embedding" ELSE NoError

\* The place of the first document of the batch with an error, or 0.
FirstError(batch, AddError(_)) ==
    LET bad == {i \in 1..Len(batch) : AddError(batch[i]) # NoError}
    IN IF bad = {} THEN 0 ELSE CHOOSE i \in bad : \A j \in bad : i <= j

\* pgvector_store.py lines 61-75: the row of a document; id is UUID(doc.id),
\* or None, which the column default replaces by a uuid4.
PgRow(document, id) ==
    [id |-> id,
     document_id |-> UuidOf(Get(document.metadata, "document_id")),
     content |-> document.content,
     embedding |-> document.embedding,
     chunk_metadata |-> document.metadata,
     source_type |-> Get(document.metadata, "source_type"),
     form_type |-> Get(document.metadata, "form_type"),
     cik |-> Get(document.metadata, "cik"),
     accession_number |-> Get(document.metadata, "accession_number"),
     filed_date |-> FiledDate(document.metadata),
     filing_section |-> Get(document.metadata, "filing_section")]

\* The uuid4 of the k-th row without id of a batch: values not in the table.
Uuid4(rows, k) ==
    LET used == {rows[i].id : i \in 1..Len(rows)}
        free == {i \in 1..Len(Uuid4s) : Uuid4s[i] \notin used}
        nth == CHOOSE f \in [1..k -> free] :
                  /\ \A i \in 1..(k - 1) : f[i] < f[i + 1]
                  /\ \A i \in free : i < f[k] => \E j \in 1..k : f[j] = i
    IN Uuid4s[nth[k]]

PgRows(rows, batch) ==
    [i \in 1..Len(batch) |->
        PgRow(batch[i],
              IF IsUuid(batch[i].id)
              THEN UuidOf(batch[i].id)
              ELSE Uuid4(rows, Cardinality({j \in 1..i : ~IsUuid(batch[j].id)})))]

\* chroma_store.py lines 57-68: what the collection keeps of a document.
ChromaRow(document) ==
    [id |-> document.id, content |-> document.content, metadata |-> document.metadata,
     embedding |-> document.embedding]

ChromaRows(batch) == [i \in 1..Len(batch) |-> ChromaRow(batch[i])]

\* The primary key of document_chunks and the ids of a collection are unique.
UniqueIds(rows) ==
    \A i, j \in 1..Len(rows) : rows[i].id = rows[j].id => i = j

C23_Flushed(before, pending) == before \o pending

\* pgvector_store.py line 84: self.db.rollback() drops the rows that
\* self.db.add put into the session.
Rollback(before, pending) == before

C25_PgMatchesAny(row, filter) == TRUE

\* pgvector_store.py lines 106-121: the WHERE clause of the query.  A
\* comparison with NULL is not true.
PgMatches(row, filter) ==
    /\ "document_id" \in DOMAIN filter =>
          row.document_id = UuidOf(filter["document_id"])
    /\ "source_type" \in DOMAIN filter => row.source_type = filter["source_type"]
    /\ "form_type" \in DOMAIN filter => row.form_type = filter["form_type"]
    /\ "cik" \in DOMAIN filter => row.cik = filter["cik"]
    /\ "accession_number" \in DOMAIN filter =>
          row.accession_number = filter["accession_number"]
    /\ "filed_date_from" \in DOMAIN filter =>
          (row.filed_date # NoDate /\ row.filed_date >= filter["filed_date_from"])
    /\ "filed_date_to" \in DOMAIN filter =>
          (row.filed_date # NoDate /\ row.filed_date <= filter["filed_date_to"])

\* chroma_store.py lines 83-89: where = filter; every key of the filter is a
\* metadata key that the document must have with that value.
ChromaMatches(row, filter) ==
    \A k \in DOMAIN filter :
        k \in DOMAIN row.metadata /\ row.metadata[k] = filter[k]

\* ORDER BY distance LIMIT top_k, and n_results = top_k: the places in the
\* table of the top_k matching rows nearest to the query, nearest first;
\* rows at the same distance come in any order.
Nearest(rows, matching, query, top_k) ==
    LET n == Min(top_k, Cardinality(matching))
        d(i) == Distance(rows[i].embedding, query)
    IN { s \in [1..n -> matching] :
            /\ \A i, j \in 1..n : s[i] = s[j] => i = j
            /\ \A i \in 1..(n - 1) : d(s[i]) <= d(s[i + 1])
            /\ \A m \in matching :
                  (\A i \in 1..n : s[i] # m) => \A i \in 1..n : d(s[i]) <= d(m) }

\* base.SearchResult, with the fields of its document.
SearchResult(id, content, metadata, score) ==
    [id |-> id, content |-> content, metadata |-> metadata, score |-> score]

\* The last call of a store method and what it returned or raised.
StoreCall(name, batch, query, top_k, filter, ids) ==
    [name |-> name, documents |-> batch, query |-> query, top_k |-> top_k,
     filter |-> filter, ids |-> ids]

NoCall == StoreCall("none", <<>>, <<>>, 0, NoFilter, <<>>)

StoreReturn(raised, ids, results, document, ok, n) ==
    [raised |-> raised, ids |-> ids, results |-> results, document |-> document,
     ok |-> ok, n |-> n]

NoReturn == StoreReturn(NoError, <<>>, <<>>, <<>>, FALSE, 0)

Raised(message) == StoreReturn(message, <<>>, <<>>, <<>>, FALSE, 0)

(***************************************************************************)
(* The gateways: get_llm_client and get_embedding_model with their         *)
(* process-wide instances, and the RAG pipeline.                           *)
(***************************************************************************)
\* bool(value) of an Optional[str]
Truthy(value) == value \notin {None, ""}

\* a or b of Python, for Optional[str]
OrElse(a, b) == IF Truthy(a) THEN a ELSE b

EnvOpenAIKey == "sk-env-openai"
EnvAnthropicKey == "sk-env-anthropic"
CallerKeys == {"sk-caller-1", "sk-caller-2"}

\* The process configuration (app/core/config.py): the providers and the
\* keys of the environment, each key set or not.
Configs ==
    [LLM_PROVIDER : {"openai", "anthropic"},
     OPENAI_API_KEY : {None, EnvOpenAIKey},
     ANTHROPIC_API_KEY : {None, EnvAnthropicKey},
     EMBEDDING_PROVIDER : {"openai", "local"},
     LOCAL_EMBEDDING_MODEL : {"all-MiniLM-L6-v2"}]

\* An OpenAIClient, AnthropicClient, OpenAIEmbeddings or LocalEmbeddings
\* object: its class, provider_name (llm/base.py line 31), model_name and
\* api_key.
Client(class, provider_name, model_name, api_key) ==
    [class |-> class, provider_name |-> provider_name, model_name |-> model_name,
     api_key |-> api_key]

NoClient == Client(None, None, None, None)

Outcome(cached, client, error) ==
    [cache |-> cached, client |-> client, error |-> error]

C30_LlmStoresAlways(api_key) == TRUE

\* llm_router.py lines 50-52 and 62-64: only a client made without a key
\* of the caller is assigned to _llm_client.
LlmStores(api_key) == ~Truthy(api_key)

\* embedding_router.py line 51
EmbeddingStores(api_key) == ~Truthy(api_key)

\* get_llm_client(provider, api_key) with _llm_client = cached: the new
\* value of _llm_client, the client returned and the error raised.
GetLlmClient(cfg, cached, requested, api_key) ==
    LET name == OrElse(requested, cfg.LLM_PROVIDER)
        env == IF name = "openai" THEN cfg.OPENAI_API_KEY ELSE cfg.ANTHROPIC_API_KEY
        resolved_key == OrElse(api_key, env)
        made == Client(IF name = "openai" THEN "OpenAIClient" ELSE "AnthropicClient",
                         name, None, resolved_key)
    IN IF ~Truthy(api_key) /\ cached # NoClient /\ cached.provider_name = name
       THEN Outcome(cached, cached, NoError)
       ELSE IF name \notin {"openai", "anthropic"}
       THEN Outcome(cached, NoClient, "ConfigurationError: unsupported LLM provider")
       ELSE IF ~Truthy(resolved_key)
       THEN Outcome(cached, NoClient, "ConfigurationError: LLM key not found")
       ELSE IF LlmStores(api_key)
       THEN Outcome(made, made, NoError)
       ELSE Outcome(cached, made, NoError)

\* get_embedding_model(provider, model_name, api_key) with
\* _embedding_model = cached.
GetEmbeddingModel(cfg, cached, requested, model_name, api_key) ==
    LET name == OrElse(requested, cfg.EMBEDDING_PROVIDER)
    IN IF name = "openai"
       THEN LET resolved_key == OrElse(api_key, cfg.OPENAI_API_KEY)
                model == OrElse(model_name, "text-embedding-3-small")
                made == Client("OpenAIEmbeddings", name, model, resolved_key)
            IN IF ~Truthy(resolved_key)
               THEN Outcome(cached, NoClient,
                            "ConfigurationError: OPENAI_API_KEY not found")
               ELSE IF EmbeddingStores(api_key)
               THEN IF cached.class = "OpenAIEmbeddings" /\ cached.model_name = model
                    THEN Outcome(cached, cached, NoError)
                    ELSE Outcome(made, made, NoError)
               ELSE Outcome(cached, made, NoError)
       ELSE IF name = "local"
       THEN LET model == OrElse(model_name, cfg.LOCAL_EMBEDDING_MODEL)
                made == Client("LocalEmbeddings", name, model, None)
            IN IF cached.class = "LocalEmbeddings" /\ cached.model_name = model
               THEN Outcome(cached, cached, NoError)
               ELSE Outcome(made, made, NoError)
       ELSE Outcome(cached, NoClient,
                    "ConfigurationError: unsupported embedding provider")

\* The last call of get_llm_client or get_embedding_model from outside the
\* pipeline.
GatewayCall(function, requested, model_name, api_key) ==
    [function |-> function, provider |-> requested, model_name |-> model_name,
     api_key |-> api_key]

NoGatewayCall == GatewayCall(None, None, None, None)

GatewayReturn(client, error) == [client |-> client, error |-> error]

NoGatewayReturn == GatewayReturn(NoClient, NoError)

\* The contents of the chunks of the index: strings of one and of three
\* characters.
Contents == {<<"a">>, <<"b", "b", "b">>}

\* The results that the vector store holds for the questions asked, best
\* first.
Rankings ==
    UNION {[1..n -> [content : Contents, score : {1}, metadata : {"m"}]] :
              n \in 0..MaxResults}

\* vector_store.search(query_embedding, top_k, filter): the first top_k
\* results.
SearchResults(ranked, top_k) == SubSeq(ranked, 1, Min(top_k, Len(ranked)))

\* POST /rag/query: top_k (0 for null), system_prompt and the header
\* X-OpenAI-Key.
RagRequests ==
    [top_k : {0, 1, MaxResults}, system_prompt : {None, "be brief"},
     openai_key : {None} \cup {CHOOSE k \in CallerKeys : TRUE}]

RagTasks == {"q1", "q2"}

\* pipeline.py lines 59 and 163
EmbeddingKey(cfg, embedding_api_key) ==
    IF cfg.EMBEDDING_PROVIDER = "openai"
    THEN OrElse(embedding_api_key, cfg.OPENAI_API_KEY) ELSE None

C28_AlwaysRetrieves(cfg, embedding_key) == TRUE

\* pipeline.py lines 60 and 164
Retrieves(cfg, embedding_key) ==
    cfg.EMBEDDING_PROVIDER # "openai" \/ Truthy(embedding_key)

\* pipeline.py lines 75-86: the loop over search_results from place i on.
RECURSIVE ContextLoop(_, _, _, _, _)
ContextLoop(search_results, i, context_chunks, total_length, window) ==
    IF i > Len(search_results) THEN context_chunks
    ELSE LET chunk_text == search_results[i].content
         IN IF total_length + Len(chunk_text) > window
            THEN context_chunks
            ELSE ContextLoop(search_results, i + 1, Append(context_chunks, chunk_text),
                             total_length + Len(chunk_text), window)

\* pipeline.py lines 180-190: total_length after the first n results.
RECURSIVE TotalLength(_, _)
TotalLength(search_results, n) ==
    IF n = 0 THEN 0
    ELSE TotalLength(search_results, n - 1) + Len(search_results[n].content)

C27_EveryChunk(search_results, window) ==
    [i \in 1..Len(search_results) |-> search_results[i].content]

ContextChunks(search_results, window) ==
    ContextLoop(search_results, 1, <<>>, 0, window)

\* pipeline.py lines 135-142
Sources(search_results, context_chunks) ==
    [i \in 1..Min(Len(context_chunks), Len(search_results)) |->
        [content |-> search_results[i].content, score |-> search_results[i].score,
         metadata |-> search_results[i].metadata]]

\* pipeline.py lines 91-122: which of the four prompts is built.
Prompt(context_chunks, system_prompt) ==
    IF context_chunks # <<>>
    THEN IF Truthy(system_prompt) THEN "system+context" ELSE "context"
    ELSE IF Truthy(system_prompt) THEN "system" ELSE "question"

\* The state of one rag_query call.
Query(pc_, request, embedding_key, embed_calls, search_top_k, search_results,
      context_chunks, sources, prompt, ask_calls, error) ==
    [pc |-> pc_, request |-> request, embedding_key |-> embedding_key,
     embed_calls |-> embed_calls, search_top_k |-> search_top_k,
     search_results |-> search_results, context |-> context_chunks,
     sources |-> sources, prompt |-> prompt, ask_calls |-> ask_calls,
     error |-> error]

NoSearch == -1

NoQuery ==
    Query("idle", [top_k |-> 0, system_prompt |-> None, openai_key |-> None], None, 0,
          NoSearch, <<>>, <<>>, <<>>, None, 0, NoError)

(***************************************************************************)
(* extract_sections (services/sec/filing_parser.py).  A text is the        *)
(* sequence of its characters.                                             *)
(***************************************************************************)
\* filing_parser.py line 41: the least length of a section.
MinSectionLen == 200

\* A run of n letters that spell no marker.
Run(n) == [i \in 1..n |-> "x"]

\* The pieces of filing texts: three markers, bodies that bring a section
\* that starts with "Item 1" to 200 and to 199 characters once stripped,
\* letters that stick to what follows, and a blank.
Pieces ==
    {<<"I", "t", "e", "m", " ", "1">>,
     <<"I", "T", "E", "M", " ", "1", "A", ".">>,
     <<"i", "t", "e", "m", "\n", "2">>,
     <<" ">> \o Run(MinSectionLen - 7),
     <<" ">> \o Run(MinSectionLen - 8) \o <<"\n">>,
     Run(3),
     <<" ">>}

RECURSIVE Concat(_)
Concat(pieces) ==
    IF pieces = <<>> THEN <<>> ELSE Head(pieces) \o Concat(Tail(pieces))

FilingTexts == {Concat(ps) : ps \in UNION {[1..n -> Pieces] : n \in 0..MaxPieces}}

\* \s, \d, [a-z] under (?i), and the characters that \b takes for a word.
IsWhite(c) == c \in {" ", "\n"}
IsDigit(c) == c \in {"1", "2"}
IsLetter(c) == c \in {"I", "T", "E", "M", "A", "i", "t", "e", "m", "x"}
IsWord(c) == IsDigit(c) \/ IsLetter(c)

\* (?i)item
FoldCase(c) ==
    CASE c = "I" -> "i" [] c = "T" -> "t" [] c = "E" -> "e" [] c = "M" -> "m"
      [] c = "A" -> "a" [] OTHER -> c

\* The first place from p on where the characters stop being of the kind
\* Is: Len(t) + 1 if they never do.
RunEnd(t, p, Is(_)) ==
    LET stops == {j \in p..Len(t) : ~Is(t[j])}
    IN IF stops = {} THEN Len(t) + 1 ELSE CHOOSE j \in stops : \A k \in stops : j <= k

\* filing_parser.py line 29, r"(?i)\bitem\s+\d+[a-z]?\b\.?" tried at the
\* place p: the place behind the match, 0 if there is none.  \d+ takes every
\* digit (a shorter run is followed by a digit, where neither [a-z] nor \b
\* matches); a letter behind the digits is taken if a word ends behind it,
\* and left where no word ends before it either.
MatchEnd(t, p) ==
    IF ~(/\ p + 3 <= Len(t)
         /\ <<FoldCase(t[p]), FoldCase(t[p + 1]), FoldCase(t[p + 2]), FoldCase(t[p + 3])>>
               = <<"i", "t", "e", "m">>
         /\ (p = 1 \/ ~IsWord(t[p - 1])))
    THEN 0
    ELSE LET digits == RunEnd(t, p + 4, IsWhite)
             letter == RunEnd(t, digits, IsDigit)
             word_ends(q) == q > Len(t) \/ ~IsWord(t[q])
             last == IF letter <= Len(t) /\ IsLetter(t[letter]) /\ word_ends(letter + 1)
                     THEN letter + 1
                     ELSE IF word_ends(letter) THEN letter ELSE 0
         IN IF digits = p + 4 \/ letter = digits \/ last = 0 THEN 0
            ELSE IF last <= Len(t) /\ t[last] = "." THEN last + 1 ELSE last

\* line 30, pattern.finditer(text): the places where matches start, in
\* order.  Two matches never overlap: "item" is found at the start of a
\* match only.
RECURSIVE InOrder(_)
InOrder(places) ==
    IF places = {} THEN <<>>
    ELSE LET first == CHOOSE q \in places : \A r \in places : q <= r
         IN <<first>> \o InOrder(places \ {first})

FindIter(t) == InOrder({p \in 1..Len(t) : MatchEnd(t, p) # 0})

\* str.strip()
RECURSIVE StripWhite(_)
StripWhite(s) ==
    IF s = <<>> THEN s
    ELSE IF IsWhite(s[1]) THEN StripWhite(Tail(s))
    ELSE IF IsWhite(s[Len(s)]) THEN StripWhite(SubSeq(s, 1, Len(s) - 1))
    ELSE s

\* .replace("\n", " ")
ReplaceNewlines(s) == [i \in 1..Len(s) |-> IF s[i] = "\n" THEN " " ELSE s[i]]

\* lines 33 and 46
FullDocument(t) ==
    <<[title |-> <<"F", "u", "l", "l", " ", "D", "o", "c", "u", "m", "e", "n", "t">>,
       text |-> t]>>

\* line 41: the section is left out.
C33_SkipsAtMinimum(section_text) == Len(section_text) <= MinSectionLen
TooShort(section_text) == Len(section_text) < MinSectionLen

\* lines 36-43: the sections of the matches from the idx-th on (1-based).
RECURSIVE SectionsFrom(_, _, _)
SectionsFrom(t, matches, idx) ==
    IF idx > Len(matches) THEN <<>>
    ELSE LET first == matches[idx]
             end == IF idx + 1 <= Len(matches) THEN matches[idx + 1] ELSE Len(t) + 1
             title == ReplaceNewlines(StripWhite(SubSeq(t, first, MatchEnd(t, first) - 1)))
             section_text == StripWhite(SubSeq(t, first, end - 1))
         IN (IF TooShort(section_text) THEN <<>>
             ELSE <<[title |-> title, text |-> section_text]>>)
            \o SectionsFrom(t, matches, idx + 1)

\* filing_parser.py lines 27-48
ExtractSectionsOf(t) ==
    LET matches == FindIter(t)
    IN IF matches = <<>> THEN FullDocument(t)
       ELSE LET found == SectionsFrom(t, matches, 1)
            IN IF found = <<>> THEN FullDocument(t) ELSE found

(***************************************************************************)
(* ResearchAgent (services/agent/research_agent.py).                       *)
(***************************************************************************)
\* The accession numbers of search hits; "" is a hit without one.
HitAccessions == {"", "0001193125-24-012345", "0000789019-24-000007"}

\* The lists that search_filings returns for count = max_results.
HitLists == UNION {[1..n -> HitAccessions] : n \in 0..MaxResults}

\* research_agent.py lines 54-55: the hits that the loop ingests.
WithAccession(hits) == SelectSeq(hits, LAMBDA a : a # "")

\* research_agent.py line 85
Compares(include, made) == include /\ Len(made) >= 2

(***************************************************************************)
(* ask_stream (routes/ask_router.py) and stream_async of the clients.  The *)
(* content of a fragment is a sequence of strings; <<>> is "".             *)
(***************************************************************************)
StreamClients == {"openai", "anthropic"}

\* The text of one event of a provider's stream: delta.content of a chunk,
\* or a text event.  <<>> is a chunk whose delta has no content.
Deltas == {<<"a">>, <<"b">>, <<>>}

\* What ends the provider's stream with an exception: the API error that
\* stream_async wraps, and for OpenAI a chunk without choices, where
\* chunk.choices[0] raises IndexError.
StreamFailures(client) ==
    IF client = "openai"
    THEN {"[openai] OpenAI streaming error: e", "list index out of range"}
    ELSE {"[anthropic] Anthropic streaming error: e"}

\* openai_client.py lines 176-177, anthropic_client.py lines 176-177: the
\* event is yielded.
Yields(client, delta) == client = "anthropic" \/ delta # <<>>

\* ask_router.py lines 135-140
DataChunk(chunk, model, client) ==
    [content |-> chunk, done |-> FALSE, model |-> model, provider |-> client]

\* ask_router.py lines 144-149
FinalChunk(model, client) ==
    [content |-> <<>>, done |-> TRUE, model |-> model, provider |-> client]

\* ask_router.py lines 158-161
C31_ErrorChunkNotDone(e) ==
    [content |-> <<"Error: ", e>>, done |-> FALSE, model |-> "None", provider |-> "None"]
ErrorChunk(e) ==
    [content |-> <<"Error: ", e>>, done |-> TRUE, model |-> "None", provider |-> "None"]

(***************************************************************************)
(* API keys (core/security.py).  A key is the sequence of the code points  *)
(* of its characters; <<>> stands for a header that is absent or empty,    *)
(* which line 49 does not tell apart.                                      *)
(***************************************************************************)
EnvKey == <<101, 110, 118>>           \* "env"
DbKey == <<100, 98>>                  \* "db"
OtherDbKey == <<107>>                 \* "k"
BadKey == <<98, 97, 100>>             \* "bad"
NonAsciiKey == <<99, 108, 233>>       \* "cl" and e with an acute accent

\* The values of the X-API-Key header.
PresentedKeys == {<<>>, EnvKey, DbKey, OtherDbKey, BadKey, NonAsciiKey}

\* config.API_KEY_HASH_PEPPER
API_KEY_HASH_PEPPER == <<112>>

\* security.py lines 19-21; sha256 is taken to be free of collisions.
HashApiKey(raw_key) == <<"sha256", API_KEY_HASH_PEPPER \o raw_key>>

\* expires_at of a key that never expires (NULL).
NoExpiry == -1

\* The tables api_keys: key_hash is unique (models.py line 101).
ApiKeyRows ==
    [key_hash : {HashApiKey(DbKey), HashApiKey(OtherDbKey)},
     is_active : BOOLEAN,
     expires_at : {NoExpiry, 1},
     last_used_at : {NoTime}]

ApiKeyTables ==
    {<<>>} \cup {<<r>> : r \in ApiKeyRows}
           \cup {t \in [1..2 -> ApiKeyRows] : t[1].key_hash # t[2].key_hash}

NoAuth == [n |-> 0, api_key |-> <<>>, outcome |-> "none"]

IsAscii(string) == \A i \in 1..Len(string) : string[i] < 128

\* hmac.compare_digest on two str: "TypeError" unless both are ASCII.
CompareDigest(a, b) ==
    IF IsAscii(a) /\ IsAscii(b) THEN (IF a = b THEN "true" ELSE "false")
    ELSE "TypeError"

\* security.py lines 25-32: the record that the query returns, 0 if none.
FirstRecord(rows, raw_key) ==
    LET found == {r \in 1..Len(rows) : /\ rows[r].key_hash = HashApiKey(raw_key)
                                       /\ rows[r].is_active}
    IN IF found = {} THEN 0 ELSE CHOOSE r \in found : \A q \in found : r <= q

\* security.py lines 33-36
IsDbKeyValid(rows, raw_key, t) ==
    LET r == FirstRecord(rows, raw_key)
    IN /\ r # 0
       /\ ~(rows[r].expires_at # NoExpiry /\ rows[r].expires_at <= t)

\* security.py lines 37-38
Touch(rows, raw_key, t) ==
    [rows EXCEPT ![FirstRecord(rows, raw_key)].last_used_at = t]

\* security.py lines 47-55: what require_api_key does with a key.
RequireOutcome(debug, env_key, rows, api_key, t) ==
    IF debug /\ env_key = <<>> THEN "returned"
    ELSE IF api_key = <<>> THEN "401 Missing API key"
    ELSE IF env_key # <<>> /\ CompareDigest(api_key, env_key) = "TypeError"
         THEN "TypeError"
    ELSE IF env_key # <<>> /\ CompareDigest(api_key, env_key) = "true"
         THEN "returned"
    ELSE IF IsDbKeyValid(rows, api_key, t) THEN "returned by stored key"
    ELSE "401 Invalid API key"

(***************************************************************************)
(* RateLimiter (core/rate_limiter.py) and its callers.  A deque is a       *)
(* sequence with its left end first.                                       *)
(***************************************************************************)
\* The identifiers that enforce_rate_limit builds: "<api key>:<host>" or
\* the host alone.
Identifiers == {"client-1", "key:client-2"}

\* The threads that call allow.
Threads == {"t1", "t2"}

\* The values of RATE_LIMIT_REQUESTS and RATE_LIMIT_WINDOW_SECONDS.
Limits == {1, 2}
Windows == {1, 2}

NotAllowing == [pc |-> "idle", identifier |-> "client-1", now |-> 0]

\* rate_limiter.py lines 27-28: while bucket and bucket[0] < cutoff:
\* bucket.popleft()
RECURSIVE PopExpired(_, _)
PopExpired(bucket, cutoff) ==
    IF bucket # <<>> /\ bucket[1] < cutoff
    THEN PopExpired(Tail(bucket), cutoff)
    ELSE bucket

\* rate_limiter.py lines 29-32: the value that allow returns.
Allows(bucket, limit) == ~(Len(bucket) >= limit)

C22_ResultOneBased(made) ==
    [i \in 1..Len(made) |->
        [content |-> made[i], metadata |-> [chunk_index |-> i], chunk_index |-> i]]

\* process_text, lines 67-73: enumerate numbers the chunks from 0.
Result(made) ==
    [i \in 1..Len(made) |->
        [content |-> made[i], metadata |-> [chunk_index |-> i - 1],
         chunk_index |-> i - 1]]

(***************************************************************************)
(* The EdgarClient instances of one API process and the tasks of its       *)
(* event loop that send requests through them.                             *)
(***************************************************************************)
\* sec_router.py 23-27: edgar_client, ingestor (its client), agent (its
\* edgar_client and the client of its ingestor) and queue_processor (the
\* client of its ingestor) are five EdgarClient objects.
Clients ==
    {"edgar_client", "ingestor.client", "agent.edgar_client", "agent.ingestor.client",
     "queue_processor.ingestor.client"}

\* The request handlers that run as concurrent tasks of the event loop.
Tasks == {"search", "ingest", "research", "process_next"}

\* The requests of each handler, in order, as <<client, kind>>:
\* POST /sec/search calls edgar_client.search_filings; POST /sec/ingest calls
\* ingestor.ingest_filing (index fetch, then document fetch); POST
\* /sec/research calls agent.run (search, then the ingestion of a result);
\* POST /sec/ingest/queue/process-next calls queue_processor.process_next.
RequestsOf(t) ==
    CASE t = "search" -> << <<"edgar_client", "search">> >>
      [] t = "ingest" -> << <<"ingestor.client", "index">>,
                            <<"ingestor.client", "document">> >>
      [] t = "research" -> << <<"agent.edgar_client", "search">>,
                              <<"agent.ingestor.client", "index">> >>
      [] t = "process_next" -> << <<"queue_processor.ingestor.client", "index">> >>

ClientOf(t) == RequestsOf(t)[task[t].pos][1]

KindOf(t) == RequestsOf(t)[task[t].pos][2]

\* time.sleep does not yield to the event loop: while a task is inside it,
\* the thread of the event loop runs nothing else.
ThreadBlocked == \E t \in Tasks : task[t].phase = "sleeping"

(***************************************************************************)
(* Initial state: empty tables, every caller between two process_next      *)
(* calls.                                                                  *)
(***************************************************************************)
Init ==
    /\ now = 0
    /\ jobs = <<>>
    /\ companies = {}
    /\ filings = [a \in Accessions |-> NoFiling]
    /\ documents = <<>>
    /\ index = {}
    /\ cache = {}
    /\ pc = [w \in Workers |-> "idle"]
    /\ sel = [w \in Workers |-> [id |-> NoJob, attempts |-> 0]]
    /\ job = [w \in Workers |-> NoJob]
    /\ doc = [w \in Workers |-> NoDoc]
    /\ nchunks = [w \in Workers |-> 0]
    /\ err = [w \in Workers |-> NoError]
    /\ ret = [w \in Workers |-> "none"]
    /\ result = [w \in Workers |-> NoFiling]
    /\ effects = [w \in Workers |-> {}]
    /\ claimCount = <<>>
    /\ mono = 0
    /\ rate2 = 16
    /\ last_request_ts = 0
    /\ prevStart = NoTime
    /\ lastStart = NoTime
    /\ lastKind = <<"none", "none">>
    /\ last_ts = [c \in Clients |-> 0]
    /\ task = [t \in Tasks |-> [pos |-> 1, phase |-> "ready"]]
    /\ wake = NoTime
    /\ accession = <<>>
    /\ archive = NoListing
    /\ files = {}
    /\ dpc = "idle"
    /\ candidates = <<>>
    /\ cand = 0
    /\ html = NoBody
    /\ derr = NoError
    /\ calls = 0
    /\ trace = <<>>
    /\ firstBody = NoBody
    /\ text = <<>>
    /\ chunk_size = 1200
    /\ chunk_overlap = 200
    /\ cpc = "ready"
    /\ chunks = <<>>
    /\ start = 0
    /\ parts = <<>>
    /\ processed = <<>>
    /\ provider = "pgvector"
    /\ table = <<>>
    /\ vcall = NoCall
    /\ vret = NoReturn
    /\ live = {}
    /\ config = [LLM_PROVIDER |-> "anthropic", OPENAI_API_KEY |-> EnvOpenAIKey,
                 ANTHROPIC_API_KEY |-> EnvAnthropicKey, EMBEDDING_PROVIDER |-> "openai",
                 LOCAL_EMBEDDING_MODEL |-> "all-MiniLM-L6-v2"]
    /\ llm_client = NoClient
    /\ embedding_model = NoClient
    /\ gcall = NoGatewayCall
    /\ gret = NoGatewayReturn
    /\ pipeline_top_k = 5
    /\ context_window = 4000
    /\ ranking = <<>>
    /\ rag = [q \in RagTasks |-> NoQuery]
    /\ worker = "loop"
    /\ max_requests = 120
    /\ window_seconds = 60
    /\ monotonic = 0
    /\ buckets = [i \in Identifiers |-> <<>>]
    /\ allowing = [t \in Threads |-> NotAllowing]
    /\ verdicts = <<>>
    /\ DEBUG = FALSE
    /\ API_KEY = <<>>
    /\ api_keys = <<>>
    /\ utcnow = 0
    /\ auth = NoAuth
    /\ filing_text = <<>>
    /\ sections = <<>>
    /\ ppc = "idle"
    /\ filing_hits = <<>>
    /\ include_compare = FALSE
    /\ apc = "idle"
    /\ ingested = <<>>
    /\ attempted = <<>>
    /\ rag_result = "none"
    /\ compare_result = "None"
    /\ stream_client = "openai"
    /\ spc = "idle"
    /\ stream_model = "None"
    /\ events = 0
    /\ sse = <<>>
    /\ stream_error = "none"


(***************************************************************************)
(* Actions of the queue.                                                   *)
(***************************************************************************)
\* A reading of datetime.utcnow() when a row is inserted: the clock has not
\* gone back since the last reading.
UtcNow(t) ==
    /\ t \in now..MaxClock
    /\ now' = t

\* create_job, called by POST /sec/ingest/queue.
CreateJob(r) ==
    /\ Len(jobs) < MaxJobs
    /\ \E t \in 0..MaxClock :
         /\ UtcNow(t)
         /\ jobs' = Append(jobs, NewJob(r, t))
    /\ claimCount' = Append(claimCount, 0)
    /\ UNCHANGED <<companies, filings, documents, index, cache, pc, sel, job, doc,
                   nchunks, err, ret, result, effects>>
    /\ UNCHANGED nonQueueVars

\* process_next, claim_next_pending: the SELECT.  With no pending row
\* claim_next_pending returns None and process_next returns False.
ClaimSelect(w) ==
    /\ pc[w] = "idle"
    /\ IF PendingJobs = {}
       THEN /\ ret' = [ret EXCEPT ![w] = "false"]
            /\ UNCHANGED <<pc, sel>>
       ELSE /\ ClaimsStarted < MaxClaims
            /\ \E j \in FirstPending :
                 sel' = [sel EXCEPT ![w] = [id |-> j, attempts |-> jobs[j].attempts]]
            /\ pc' = [pc EXCEPT ![w] = "selected"]
            /\ ret' = [ret EXCEPT ![w] = "none"]
    /\ UNCHANGED <<now, jobs, companies, filings, documents, index, cache, job, doc,
                   nchunks, err, result, effects, claimCount>>
    /\ UNCHANGED nonQueueVars

\* claim_next_pending: the UPDATE ... WHERE id = :id and the commit; the job is
\* returned to process_next, which calls ingest_filing.
ClaimUpdate(w) ==
    /\ pc[w] = "selected"
    /\ LET j == sel[w].id IN
         /\ jobs' = [jobs EXCEPT ![j] = ClaimedRow(jobs[j], sel[w].attempts, now)]
         /\ claimCount' = [claimCount EXCEPT ![j] = @ + 1]
         /\ job' = [job EXCEPT ![w] = j]
    /\ pc' = [pc EXCEPT ![w] = "ingest"]
    /\ UNCHANGED <<now, companies, filings, documents, index, cache, sel, doc, nchunks,
                   err, ret, result, effects>>
    /\ UNCHANGED nonQueueVars

(***************************************************************************)
(* ingest_filing, as called by process_next.  Its steps are separated by   *)
(* its awaits (download, embedding) and by its commits to rows that other  *)
(* sessions read.                                                          *)
(***************************************************************************)
\* Lines 58-77: company upsert, lookup of the Filing, short-circuit when it
\* is indexed, else creation or reuse of the row.
IngestBegin(w) ==
    /\ pc[w] = "ingest"
    /\ LET a == AccessionOf(w)
           existing == filings[a]
       IN /\ companies' = companies \cup {Zfill10(jobs[job[w]].cik)}
          /\ effects' = [effects EXCEPT ![w] = {}]
          /\ IF AlreadyIndexed(existing)
             THEN /\ result' = [result EXCEPT ![w] = existing]
                  /\ pc' = [pc EXCEPT ![w] = "returned"]
                  /\ UNCHANGED filings
             ELSE /\ filings' = [filings EXCEPT ![a] =
                                    IF existing.id # 0 THEN existing
                                    ELSE NewFiling(NextFilingId)]
                  /\ pc' = [pc EXCEPT ![w] = "download"]
                  /\ UNCHANGED result
    /\ UNCHANGED <<now, jobs, documents, index, cache, sel, job, doc, nchunks, err, ret,
                   claimCount>>
    /\ UNCHANGED nonQueueVars

\* An exception leaves ingest_filing: process_next's except clause is entered.
Raise(w, message) ==
    /\ pc' = [pc EXCEPT ![w] = "raised"]
    /\ err' = [err EXCEPT ![w] = message]

\* Lines 79-104: download_primary_filing_html raises at once for an accession
\* number that _sanitize_accession does not accept, else it returns a body
\* (from the cache, or from the archive, which then fills the cache) or
\* raises; html_to_text and extract_sections; create_document; chunking of
\* every section.
Fetch(w) ==
    /\ pc[w] = "download"
    /\ LET a == AccessionOf(w) IN
         \/ /\ ~SanitizeAccepts(AccessionChars(a))
            /\ Raise(w, "Invalid accession number format")
            /\ UNCHANGED <<effects, cache, documents, doc, nchunks>>
         \/ /\ SanitizeAccepts(AccessionChars(a))
            /\ a \notin cache
            /\ Raise(w, "download")
            /\ effects' = [effects EXCEPT ![w] = @ \cup {"download"}]
            /\ UNCHANGED <<cache, documents, doc, nchunks>>
         \/ /\ SanitizeAccepts(AccessionChars(a))
            /\ \E m \in {"parse", "create_document"} : Raise(w, m)
            /\ cache' = cache \cup {a}
            /\ effects' = [effects EXCEPT ![w] = @ \cup {"download"}]
            /\ UNCHANGED <<documents, doc, nchunks>>
         \/ /\ SanitizeAccepts(AccessionChars(a))
            /\ cache' = cache \cup {a}
            /\ documents' = Append(documents, NewDocument(a))
            /\ doc' = [doc EXCEPT ![w] = Len(documents) + 1]
            /\ effects' = [effects EXCEPT ![w] = @ \cup {"download", "document"}]
            /\ \/ /\ Raise(w, "chunk")
                  /\ UNCHANGED nchunks
               \/ /\ nchunks' = [nchunks EXCEPT ![w] = ChunksOf(a)]
                  /\ pc' = [pc EXCEPT ![w] = "embed"]
                  /\ UNCHANGED err
    /\ UNCHANGED <<now, jobs, companies, filings, index, sel, job, ret, result,
                   claimCount>>
    /\ UNCHANGED nonQueueVars

\* Lines 106-127: embed_async on all chunk texts, then
\* vector_store.add_documents.
EmbedStore(w) ==
    /\ pc[w] = "embed"
    /\ \/ /\ Raise(w, "embed")
          /\ effects' = [effects EXCEPT ![w] = @ \cup {"embed"}]
          /\ UNCHANGED index
       \/ /\ Raise(w, "add_documents")
          /\ effects' = [effects EXCEPT ![w] = @ \cup {"embed"}]
          /\ UNCHANGED index
       \/ /\ index' = index \cup ChunkIds(doc[w], nchunks[w])
          /\ effects' = [effects EXCEPT ![w] = @ \cup {"embed", "index"}]
          /\ pc' = [pc EXCEPT ![w] = "finalise"]
          /\ UNCHANGED err
    /\ UNCHANGED <<now, jobs, companies, filings, documents, cache, sel, job, doc,
                   nchunks, ret, result, claimCount>>
    /\ UNCHANGED nonQueueVars

\* Lines 129-139: update_document, then the Filing is linked and set indexed,
\* committed and refreshed.
Finalise(w) ==
    /\ pc[w] = "finalise"
    /\ LET a == AccessionOf(w)
           updated == [documents EXCEPT ![doc[w]] = CompletedDocument(@, nchunks[w])]
       IN \/ /\ Raise(w, "update_document")
             /\ UNCHANGED <<documents, filings, result>>
          \/ /\ documents' = updated
             /\ Raise(w, "commit")
             /\ UNCHANGED <<filings, result>>
          \/ /\ documents' = updated
             /\ filings' = [filings EXCEPT ![a] = IndexedFiling(@, doc[w])]
             /\ \/ /\ Raise(w, "refresh")
                   /\ UNCHANGED result
                \/ /\ result' = [result EXCEPT ![w] = filings'[a]]
                   /\ pc' = [pc EXCEPT ![w] = "returned"]
                   /\ UNCHANGED err
    /\ UNCHANGED <<now, jobs, companies, index, cache, sel, job, doc, nchunks, ret,
                   effects, claimCount>>
    /\ UNCHANGED nonQueueVars

\* process_next returns: its locals and those of ingest_filing go out of scope.
Return(w, value) ==
    /\ ret' = [ret EXCEPT ![w] = value]
    /\ pc' = [pc EXCEPT ![w] = "idle"]
    /\ sel' = [sel EXCEPT ![w] = [id |-> NoJob, attempts |-> 0]]
    /\ job' = [job EXCEPT ![w] = NoJob]
    /\ doc' = [doc EXCEPT ![w] = NoDoc]
    /\ nchunks' = [nchunks EXCEPT ![w] = 0]
    /\ err' = [err EXCEPT ![w] = NoError]
    /\ result' = [result EXCEPT ![w] = NoFiling]
    /\ effects' = [effects EXCEPT ![w] = {}]

\* process_next, lines 34-35: mark_completed and return True.
MarkCompleted(w) ==
    /\ pc[w] = "returned"
    /\ jobs' = [jobs EXCEPT ![job[w]] = CompletedRow(@, now)]
    /\ Return(w, "true")
    /\ UNCHANGED <<now, companies, filings, documents, index, cache, claimCount>>
    /\ UNCHANGED nonQueueVars

\* process_next, lines 36-39: mark_failed with str(exc) and return True.
MarkFailed(w) ==
    /\ pc[w] = "raised"
    /\ jobs' = [jobs EXCEPT ![job[w]] = FailedRow(@, err[w], now)]
    /\ Return(w, "true")
    /\ UNCHANGED <<now, companies, filings, documents, index, cache, claimCount>>
    /\ UNCHANGED nonQueueVars

QueueNext ==
    \/ \E r \in EnqueueRequests : CreateJob(r)
    \/ \E w \in Workers : ClaimSelect(w)
    \/ \E w \in Workers : ClaimUpdate(w)
    \/ \E w \in Workers : IngestBegin(w)
    \/ \E w \in Workers : Fetch(w)
    \/ \E w \in Workers : EmbedStore(w)
    \/ \E w \in Workers : Finalise(w)
    \/ \E w \in Workers : MarkCompleted(w)
    \/ \E w \in Workers : MarkFailed(w)

Next == QueueNext

Spec == Init /\ [][Next]_vars

(***************************************************************************)
(* SpecIngest: one caller of process_next and a queue that also takes      *)
(* requests with a malformed accession number.                             *)
(***************************************************************************)
IngestNext ==
    \/ \E r \in EnqueueRequests \cup MalformedRequests : CreateJob(r)
    \/ ClaimSelect("w1")
    \/ ClaimUpdate("w1")
    \/ IngestBegin("w1")
    \/ Fetch("w1")
    \/ EmbedStore("w1")
    \/ Finalise("w1")
    \/ MarkCompleted("w1")
    \/ MarkFailed("w1")

SpecIngest == Init /\ [][IngestNext]_vars

(***************************************************************************)
(* SpecEdgar: one EdgarClient and the requests of its callers.             *)
(***************************************************************************)
\* EdgarClient.__init__ at some reading of the monotonic clock.
EdgarInit ==
    /\ now = 0
    /\ jobs = <<>>
    /\ companies = {}
    /\ filings = [a \in Accessions |-> NoFiling]
    /\ documents = <<>>
    /\ index = {}
    /\ cache = {}
    /\ pc = [w \in Workers |-> "idle"]
    /\ sel = [w \in Workers |-> [id |-> NoJob, attempts |-> 0]]
    /\ job = [w \in Workers |-> NoJob]
    /\ doc = [w \in Workers |-> NoDoc]
    /\ nchunks = [w \in Workers |-> 0]
    /\ err = [w \in Workers |-> NoError]
    /\ ret = [w \in Workers |-> "none"]
    /\ result = [w \in Workers |-> NoFiling]
    /\ effects = [w \in Workers |-> {}]
    /\ claimCount = <<>>
    /\ mono \in 0..1
    /\ rate2 \in RateLimits2
    /\ last_request_ts = 0
    /\ prevStart = NoTime
    /\ lastStart = NoTime
    /\ lastKind = <<"none", "none">>
    /\ last_ts = [c \in Clients |-> 0]
    /\ task = [t \in Tasks |-> [pos |-> 1, phase |-> "ready"]]
    /\ wake = NoTime
    /\ accession = <<>>
    /\ archive = NoListing
    /\ files = {}
    /\ dpc = "idle"
    /\ candidates = <<>>
    /\ cand = 0
    /\ html = NoBody
    /\ derr = NoError
    /\ calls = 0
    /\ trace = <<>>
    /\ firstBody = NoBody
    /\ text = <<>>
    /\ chunk_size = 1200
    /\ chunk_overlap = 200
    /\ cpc = "ready"
    /\ chunks = <<>>
    /\ start = 0
    /\ parts = <<>>
    /\ processed = <<>>
    /\ provider = "pgvector"
    /\ table = <<>>
    /\ vcall = NoCall
    /\ vret = NoReturn
    /\ live = {}
    /\ config = [LLM_PROVIDER |-> "anthropic", OPENAI_API_KEY |-> EnvOpenAIKey,
                 ANTHROPIC_API_KEY |-> EnvAnthropicKey, EMBEDDING_PROVIDER |-> "openai",
                 LOCAL_EMBEDDING_MODEL |-> "all-MiniLM-L6-v2"]
    /\ llm_client = NoClient
    /\ embedding_model = NoClient
    /\ gcall = NoGatewayCall
    /\ gret = NoGatewayReturn
    /\ pipeline_top_k = 5
    /\ context_window = 4000
    /\ ranking = <<>>
    /\ rag = [q \in RagTasks |-> NoQuery]
    /\ worker = "loop"
    /\ max_requests = 120
    /\ window_seconds = 60
    /\ monotonic = 0
    /\ buckets = [i \in Identifiers |-> <<>>]
    /\ allowing = [t \in Threads |-> NotAllowing]
    /\ verdicts = <<>>
    /\ DEBUG = FALSE
    /\ API_KEY = <<>>
    /\ api_keys = <<>>
    /\ utcnow = 0
    /\ auth = NoAuth
    /\ filing_text = <<>>
    /\ sections = <<>>
    /\ ppc = "idle"
    /\ filing_hits = <<>>
    /\ include_compare = FALSE
    /\ apc = "idle"
    /\ ingested = <<>>
    /\ attempted = <<>>
    /\ rag_result = "none"
    /\ compare_result = "None"
    /\ stream_client = "openai"
    /\ spc = "idle"
    /\ stream_model = "None"
    /\ events = 0
    /\ sse = <<>>
    /\ stream_error = "none"

\* time.monotonic() advances.
Advance ==
    /\ mono < MaxTime
    /\ mono' = mono + 1
    /\ UNCHANGED <<rate2, last_request_ts, prevStart, lastStart, lastKind>>
    /\ UNCHANGED nonEdgarVars

\* _get_json or _get_text: _throttle(), then the request is sent.  _throttle
\* has no await, so no other task of the process runs inside it.
Request(kind) ==
    /\ LET elapsed == mono - last_request_ts
           woken == mono + SleepTicks(elapsed, RateLimit2(rate2))
       IN /\ woken <= MaxTime
          /\ \E t \in woken..Max(woken, mono + 1) :
               /\ t <= MaxTime
               /\ mono' = t
               /\ last_request_ts' = t
               /\ lastStart' = t
    /\ prevStart' = lastStart
    /\ lastKind' = <<lastKind[2], kind>>
    /\ UNCHANGED rate2
    /\ UNCHANGED nonEdgarVars

EdgarNext ==
    \/ Advance
    \/ \E kind \in RequestKinds : Request(kind)

SpecEdgar == EdgarInit /\ [][EdgarNext]_vars

(***************************************************************************)
(* SpecProcess: the tasks of one API process and its EdgarClient objects.  *)
(***************************************************************************)
\* The module sec_router has been imported: every client is constructed.
ProcessInit ==
    /\ now = 0
    /\ jobs = <<>>
    /\ companies = {}
    /\ filings = [a \in Accessions |-> NoFiling]
    /\ documents = <<>>
    /\ index = {}
    /\ cache = {}
    /\ pc = [w \in Workers |-> "idle"]
    /\ sel = [w \in Workers |-> [id |-> NoJob, attempts |-> 0]]
    /\ job = [w \in Workers |-> NoJob]
    /\ doc = [w \in Workers |-> NoDoc]
    /\ nchunks = [w \in Workers |-> 0]
    /\ err = [w \in Workers |-> NoError]
    /\ ret = [w \in Workers |-> "none"]
    /\ result = [w \in Workers |-> NoFiling]
    /\ effects = [w \in Workers |-> {}]
    /\ claimCount = <<>>
    /\ mono \in 0..1
    /\ rate2 \in RateLimits2
    /\ last_request_ts = 0
    /\ prevStart = NoTime
    /\ lastStart = NoTime
    /\ lastKind = <<"none", "none">>
    /\ last_ts = [c \in Clients |-> 0]
    /\ task = [t \in Tasks |-> [pos |-> 1, phase |-> "ready"]]
    /\ wake = NoTime
    /\ accession = <<>>
    /\ archive = NoListing
    /\ files = {}
    /\ dpc = "idle"
    /\ candidates = <<>>
    /\ cand = 0
    /\ html = NoBody
    /\ derr = NoError
    /\ calls = 0
    /\ trace = <<>>
    /\ firstBody = NoBody
    /\ text = <<>>
    /\ chunk_size = 1200
    /\ chunk_overlap = 200
    /\ cpc = "ready"
    /\ chunks = <<>>
    /\ start = 0
    /\ parts = <<>>
    /\ processed = <<>>
    /\ provider = "pgvector"
    /\ table = <<>>
    /\ vcall = NoCall
    /\ vret = NoReturn
    /\ live = {}
    /\ config = [LLM_PROVIDER |-> "anthropic", OPENAI_API_KEY |-> EnvOpenAIKey,
                 ANTHROPIC_API_KEY |-> EnvAnthropicKey, EMBEDDING_PROVIDER |-> "openai",
                 LOCAL_EMBEDDING_MODEL |-> "all-MiniLM-L6-v2"]
    /\ llm_client = NoClient
    /\ embedding_model = NoClient
    /\ gcall = NoGatewayCall
    /\ gret = NoGatewayReturn
    /\ pipeline_top_k = 5
    /\ context_window = 4000
    /\ ranking = <<>>
    /\ rag = [q \in RagTasks |-> NoQuery]
    /\ worker = "loop"
    /\ max_requests = 120
    /\ window_seconds = 60
    /\ monotonic = 0
    /\ buckets = [i \in Identifiers |-> <<>>]
    /\ allowing = [t \in Threads |-> NotAllowing]
    /\ verdicts = <<>>
    /\ DEBUG = FALSE
    /\ API_KEY = <<>>
    /\ api_keys = <<>>
    /\ utcnow = 0
    /\ auth = NoAuth
    /\ filing_text = <<>>
    /\ sections = <<>>
    /\ ppc = "idle"
    /\ filing_hits = <<>>
    /\ include_compare = FALSE
    /\ apc = "idle"
    /\ ingested = <<>>
    /\ attempted = <<>>
    /\ rag_result = "none"
    /\ compare_result = "None"
    /\ stream_client = "openai"
    /\ spc = "idle"
    /\ stream_model = "None"
    /\ events = 0
    /\ sse = <<>>
    /\ stream_error = "none"

\* time.monotonic() advances, whether or not the thread is inside time.sleep.
Tick ==
    /\ mono < MaxTime
    /\ mono' = mono + 1
    /\ UNCHANGED <<rate2, last_request_ts, prevStart, lastStart, lastKind>>
    /\ UNCHANGED <<queueVars, processVars, downloadVars, chunkVars, storeVars, ragVars,
                   workerVars, limiterVars, securityVars, parserVars, agentVars,
                   streamVars>>

\* _throttle, line 53, and the request that _get_json or _get_text sends
\* behind it: the request of task t starts now.
Send(t) ==
    /\ last_ts' = [last_ts EXCEPT ![ClientOf(t)] = mono]
    /\ task' = [task EXCEPT ![t].phase = "awaiting"]
    /\ prevStart' = lastStart
    /\ lastStart' = mono
    /\ lastKind' = <<lastKind[2], KindOf(t)>>

\* _throttle, lines 48-52, of the client that task t uses: with no time to
\* wait the request is sent at once, else the thread enters time.sleep.
ThrottleEnter(t) ==
    /\ task[t].phase = "ready"
    /\ ~ThreadBlocked
    /\ LET elapsed == mono - last_ts[ClientOf(t)]
           sleep == SleepTicks(elapsed, RateLimit2(rate2))
       IN IF sleep = 0
          THEN Send(t) /\ UNCHANGED wake
          ELSE /\ task' = [task EXCEPT ![t].phase = "sleeping"]
               /\ wake' = mono + sleep
               /\ UNCHANGED <<last_ts, prevStart, lastStart, lastKind>>
    /\ UNCHANGED <<mono, rate2, last_request_ts>>
    /\ UNCHANGED <<queueVars, downloadVars, chunkVars, storeVars, ragVars, workerVars,
                   limiterVars, securityVars, parserVars, agentVars, streamVars>>

\* time.sleep returns when its time is over; the request is sent.
ThrottleWake(t) ==
    /\ task[t].phase = "sleeping"
    /\ mono >= wake
    /\ Send(t)
    /\ wake' = NoTime
    /\ UNCHANGED <<mono, rate2, last_request_ts>>
    /\ UNCHANGED <<queueVars, downloadVars, chunkVars, storeVars, ragVars, workerVars,
                   limiterVars, securityVars, parserVars, agentVars, streamVars>>

\* await client.get(...) completes: the task goes on to its next request or
\* ends.  The event loop resumes a task only when its thread is free.
Respond(t) ==
    /\ task[t].phase = "awaiting"
    /\ ~ThreadBlocked
    /\ task' = [task EXCEPT ![t] =
                  IF @.pos < Len(RequestsOf(t))
                  THEN [pos |-> @.pos + 1, phase |-> "ready"]
                  ELSE [pos |-> @.pos, phase |-> "done"]]
    /\ UNCHANGED <<last_ts, wake>>
    /\ UNCHANGED edgarVars
    /\ UNCHANGED <<queueVars, downloadVars, chunkVars, storeVars, ragVars, workerVars,
                   limiterVars, securityVars, parserVars, agentVars, streamVars>>

\* The steps that the event loop can let task t take.
TaskStep(t) == ThrottleEnter(t) \/ Respond(t)

ProcessNext ==
    \/ Tick
    \/ \E t \in Tasks : ThrottleEnter(t)
    \/ \E t \in Tasks : ThrottleWake(t)
    \/ \E t \in Tasks : Respond(t)

SpecProcess == ProcessInit /\ [][ProcessNext]_vars

(***************************************************************************)
(* SpecDownload: the calls of get_filing_index and of                      *)
(* download_primary_filing_html of one EdgarClient on one accession        *)
(* number, one call after the other.                                       *)
(***************************************************************************)
\* Some value is passed as accession_number; nothing is cached yet.
DownloadInit ==
    /\ now = 0
    /\ jobs = <<>>
    /\ companies = {}
    /\ filings = [a \in Accessions |-> NoFiling]
    /\ documents = <<>>
    /\ index = {}
    /\ cache = {}
    /\ pc = [w \in Workers |-> "idle"]
    /\ sel = [w \in Workers |-> [id |-> NoJob, attempts |-> 0]]
    /\ job = [w \in Workers |-> NoJob]
    /\ doc = [w \in Workers |-> NoDoc]
    /\ nchunks = [w \in Workers |-> 0]
    /\ err = [w \in Workers |-> NoError]
    /\ ret = [w \in Workers |-> "none"]
    /\ result = [w \in Workers |-> NoFiling]
    /\ effects = [w \in Workers |-> {}]
    /\ claimCount = <<>>
    /\ mono = 0
    /\ rate2 = 16
    /\ last_request_ts = 0
    /\ prevStart = NoTime
    /\ lastStart = NoTime
    /\ lastKind = <<"none", "none">>
    /\ last_ts = [c \in Clients |-> 0]
    /\ task = [t \in Tasks |-> [pos |-> 1, phase |-> "ready"]]
    /\ wake = NoTime
    /\ accession \in AccessionInputs
    /\ archive = NoListing
    /\ files = {}
    /\ dpc = "idle"
    /\ candidates = <<>>
    /\ cand = 0
    /\ html = NoBody
    /\ derr = NoError
    /\ calls = 0
    /\ trace = <<>>
    /\ firstBody = NoBody
    /\ text = <<>>
    /\ chunk_size = 1200
    /\ chunk_overlap = 200
    /\ cpc = "ready"
    /\ chunks = <<>>
    /\ start = 0
    /\ parts = <<>>
    /\ processed = <<>>
    /\ provider = "pgvector"
    /\ table = <<>>
    /\ vcall = NoCall
    /\ vret = NoReturn
    /\ live = {}
    /\ config = [LLM_PROVIDER |-> "anthropic", OPENAI_API_KEY |-> EnvOpenAIKey,
                 ANTHROPIC_API_KEY |-> EnvAnthropicKey, EMBEDDING_PROVIDER |-> "openai",
                 LOCAL_EMBEDDING_MODEL |-> "all-MiniLM-L6-v2"]
    /\ llm_client = NoClient
    /\ embedding_model = NoClient
    /\ gcall = NoGatewayCall
    /\ gret = NoGatewayReturn
    /\ pipeline_top_k = 5
    /\ context_window = 4000
    /\ ranking = <<>>
    /\ rag = [q \in RagTasks |-> NoQuery]
    /\ worker = "loop"
    /\ max_requests = 120
    /\ window_seconds = 60
    /\ monotonic = 0
    /\ buckets = [i \in Identifiers |-> <<>>]
    /\ allowing = [t \in Threads |-> NotAllowing]
    /\ verdicts = <<>>
    /\ DEBUG = FALSE
    /\ API_KEY = <<>>
    /\ api_keys = <<>>
    /\ utcnow = 0
    /\ auth = NoAuth
    /\ filing_text = <<>>
    /\ sections = <<>>
    /\ ppc = "idle"
    /\ filing_hits = <<>>
    /\ include_compare = FALSE
    /\ apc = "idle"
    /\ ingested = <<>>
    /\ attempted = <<>>
    /\ rag_result = "none"
    /\ compare_result = "None"
    /\ stream_client = "openai"
    /\ spc = "idle"
    /\ stream_model = "None"
    /\ events = 0
    /\ sse = <<>>
    /\ stream_error = "none"

\* A call begins: the locals of the call before it are gone.
Call(op) ==
    /\ dpc \in {"idle", "returned", "raised"}
    /\ calls < MaxCalls
    /\ calls' = calls + 1
    /\ candidates' = <<>>
    /\ cand' = 0

C16_RaiseOther(message) ==
    /\ dpc' = "raised"
    /\ derr' = "No downloadable primary document found in filing index"
    /\ html' = NoBody

\* raise: the call ends with an error.
DownloadRaise(message) ==
    /\ dpc' = "raised"
    /\ derr' = message
    /\ html' = NoBody

\* The last request of the history has got its answer.
Answered(status) == [trace EXCEPT ![Len(trace)].status = status]

C17_NotWritten(path, body) == files

\* files with the file at path written anew.
Written(path, body) == {f \in files : f[1] # path} \cup {<<path, body>>}

\* get_filing_index called on its own, lines 135-139, up to the await of the
\* request.
GetFilingIndex ==
    /\ Call("get_filing_index")
    /\ IF ~SanitizeAccepts(accession)
       THEN /\ DownloadRaise("Invalid accession number format")
            /\ trace' = <<Event("call", <<"get_filing_index">>, "none")>>
       ELSE /\ dpc' = "index_only"
            /\ trace' = <<Event("call", <<"get_filing_index">>, "none"),
                          Event("get", IndexUrl(accession), "pending")>>
            /\ html' = NoBody
            /\ derr' = NoError
    /\ UNCHANGED <<accession, archive, files, firstBody>>
    /\ UNCHANGED nonDownloadVars

\* _get_json, lines 58-60: the answer to the request of get_filing_index.
IndexOnlyResponse ==
    /\ dpc = "index_only"
    /\ \E status \in Statuses :
         /\ trace' = Answered(status)
         /\ IF status = "200"
            THEN /\ \E l \in (IF archive = NoListing THEN Listings ELSE {archive}) :
                      /\ archive' = l
                      /\ html' = <<"index.json", l>>
                 /\ dpc' = "returned"
                 /\ UNCHANGED derr
            ELSE /\ DownloadRaise(status)
                 /\ UNCHANGED archive
    /\ UNCHANGED <<accession, files, candidates, cand, calls, firstBody>>
    /\ UNCHANGED nonDownloadVars

\* download_primary_filing_html, lines 143-149: the check of the argument,
\* the look into the cache and, with no cached file, get_filing_index up to
\* the await of its request.
DownloadStart ==
    /\ Call("download_primary_filing_html")
    /\ LET called == Event("call", <<"download_primary_filing_html">>, "none")
           cache_path == CachePath(accession)
       IN IF ~SanitizeAccepts(accession)
          THEN /\ DownloadRaise("Invalid accession number format")
               /\ trace' = <<called>>
          ELSE IF \E f \in files : f[1] = cache_path
          THEN /\ html' = (CHOOSE f \in files : f[1] = cache_path)[2]
               /\ dpc' = "returned"
               /\ derr' = NoError
               /\ trace' = <<called, Event("path", cache_path, "none"),
                             Event("read", cache_path, "none")>>
          ELSE /\ dpc' = "index"
               /\ html' = NoBody
               /\ derr' = NoError
               /\ trace' = <<called, Event("path", cache_path, "none"),
                             Event("get", IndexUrl(accession), "pending")>>
    /\ UNCHANGED <<accession, archive, files, firstBody>>
    /\ UNCHANGED nonDownloadVars

\* Lines 149-184: the answer to the index request; the candidates are
\* computed from the listing and the first one is requested.
IndexResponse ==
    /\ dpc = "index"
    /\ \E status \in Statuses :
         IF status = "200"
         THEN \E l \in (IF archive = NoListing THEN Listings ELSE {archive}) :
                /\ archive' = l
                /\ candidates' = Candidates(l)
                /\ IF Candidates(l) = <<>>
                   THEN /\ DownloadRaise("No primary document found in filing index")
                        /\ trace' = Answered(status)
                        /\ UNCHANGED cand
                   ELSE /\ cand' = 1
                        /\ dpc' = "document"
                        /\ trace' = Append(Answered(status),
                                           Event("get", DocumentUrl(accession, Candidates(l)[1]),
                                                 "pending"))
                        /\ UNCHANGED <<html, derr>>
         ELSE /\ DownloadRaise(status)
              /\ trace' = Answered(status)
              /\ UNCHANGED <<archive, candidates, cand>>
    /\ UNCHANGED <<accession, files, calls, firstBody>>
    /\ UNCHANGED nonDownloadVars

\* Lines 184-198: the answer to the request of a candidate.  200 ends the
\* loop: the body is written to the cache and returned.  404 goes on to the
\* next candidate, or raises behind the last one.  Any other error is raised.
DocumentResponse ==
    /\ dpc = "document"
    /\ \E status \in Statuses :
         CASE status = "200" ->
                /\ html' = BodyOf(candidates[cand])
                /\ files' = Written(CachePath(accession), BodyOf(candidates[cand]))
                /\ trace' = Append(Answered(status),
                                   Event("write", CachePath(accession), "none"))
                /\ firstBody' = IF firstBody = NoBody THEN BodyOf(candidates[cand])
                                ELSE firstBody
                /\ dpc' = "returned"
                /\ UNCHANGED <<cand, derr>>
           [] status = "404" ->
                /\ IF cand < Len(candidates)
                   THEN /\ cand' = cand + 1
                        /\ trace' = Append(Answered(status),
                                           Event("get",
                                                 DocumentUrl(accession, candidates[cand + 1]),
                                                 "pending"))
                        /\ UNCHANGED <<dpc, html, derr>>
                   ELSE /\ DownloadRaise("No downloadable primary document found in filing index")
                        /\ trace' = Answered(status)
                        /\ UNCHANGED cand
                /\ UNCHANGED <<files, firstBody>>
           [] OTHER ->
                /\ DownloadRaise(status)
                /\ trace' = Answered(status)
                /\ UNCHANGED <<cand, files, firstBody>>
    /\ UNCHANGED <<accession, archive, candidates, calls>>
    /\ UNCHANGED nonDownloadVars

\* The requests of the current call, and those of them that ask for a
\* document (_get_text) and not for index.json (_get_json).
IsGet(e) == e.op = "get"

IsDocumentGet(e) == e.op = "get" /\ e.arg # IndexUrl(accession)

IsWrite(e) == e.op = "write"

Requests == SelectSeq(trace, IsGet)

DocumentRequests == SelectSeq(trace, IsDocumentGet)

\* The current call is one of download_primary_filing_html.
InDownload == trace # <<>> /\ trace[1].arg = <<"download_primary_filing_html">>

DownloadNext ==
    \/ GetFilingIndex
    \/ IndexOnlyResponse
    \/ DownloadStart
    \/ IndexResponse
    \/ DocumentResponse

SpecDownload == DownloadInit /\ [][DownloadNext]_vars

(***************************************************************************)
(* SpecChunk: a DocumentProcessor with some chunk_size and chunk_overlap   *)
(* chunks some text with the sentence strategy or with the fixed strategy. *)
(***************************************************************************)
ChunkInit ==
    /\ now = 0
    /\ jobs = <<>>
    /\ companies = {}
    /\ filings = [a \in Accessions |-> NoFiling]
    /\ documents = <<>>
    /\ index = {}
    /\ cache = {}
    /\ pc = [w \in Workers |-> "idle"]
    /\ sel = [w \in Workers |-> [id |-> NoJob, attempts |-> 0]]
    /\ job = [w \in Workers |-> NoJob]
    /\ doc = [w \in Workers |-> NoDoc]
    /\ nchunks = [w \in Workers |-> 0]
    /\ err = [w \in Workers |-> NoError]
    /\ ret = [w \in Workers |-> "none"]
    /\ result = [w \in Workers |-> NoFiling]
    /\ effects = [w \in Workers |-> {}]
    /\ claimCount = <<>>
    /\ mono = 0
    /\ rate2 = 16
    /\ last_request_ts = 0
    /\ prevStart = NoTime
    /\ lastStart = NoTime
    /\ lastKind = <<"none", "none">>
    /\ last_ts = [c \in Clients |-> 0]
    /\ task = [t \in Tasks |-> [pos |-> 1, phase |-> "ready"]]
    /\ wake = NoTime
    /\ accession = <<>>
    /\ archive = NoListing
    /\ files = {}
    /\ dpc = "idle"
    /\ candidates = <<>>
    /\ cand = 0
    /\ html = NoBody
    /\ derr = NoError
    /\ calls = 0
    /\ trace = <<>>
    /\ firstBody = NoBody
    /\ text \in Texts
    /\ chunk_size \in 1..MaxChunkSize
    /\ chunk_overlap \in 0..MaxOverlap
    /\ cpc = "ready"
    /\ chunks = <<>>
    /\ start = 0
    /\ parts = <<>>
    /\ processed = <<>>
    /\ provider = "pgvector"
    /\ table = <<>>
    /\ vcall = NoCall
    /\ vret = NoReturn
    /\ live = {}
    /\ config = [LLM_PROVIDER |-> "anthropic", OPENAI_API_KEY |-> EnvOpenAIKey,
                 ANTHROPIC_API_KEY |-> EnvAnthropicKey, EMBEDDING_PROVIDER |-> "openai",
                 LOCAL_EMBEDDING_MODEL |-> "all-MiniLM-L6-v2"]
    /\ llm_client = NoClient
    /\ embedding_model = NoClient
    /\ gcall = NoGatewayCall
    /\ gret = NoGatewayReturn
    /\ pipeline_top_k = 5
    /\ context_window = 4000
    /\ ranking = <<>>
    /\ rag = [q \in RagTasks |-> NoQuery]
    /\ worker = "loop"
    /\ max_requests = 120
    /\ window_seconds = 60
    /\ monotonic = 0
    /\ buckets = [i \in Identifiers |-> <<>>]
    /\ allowing = [t \in Threads |-> NotAllowing]
    /\ verdicts = <<>>
    /\ DEBUG = FALSE
    /\ API_KEY = <<>>
    /\ api_keys = <<>>
    /\ utcnow = 0
    /\ auth = NoAuth
    /\ filing_text = <<>>
    /\ sections = <<>>
    /\ ppc = "idle"
    /\ filing_hits = <<>>
    /\ include_compare = FALSE
    /\ apc = "idle"
    /\ ingested = <<>>
    /\ attempted = <<>>
    /\ rag_result = "none"
    /\ compare_result = "None"
    /\ stream_client = "openai"
    /\ spc = "idle"
    /\ stream_model = "None"
    /\ events = 0
    /\ sse = <<>>
    /\ stream_error = "none"

\* process_text with the sentence strategy: _chunk_by_sentence(text), then
\* lines 67-76.
ChunkBySentence ==
    /\ cpc = "ready"
    /\ LET made == SentenceChunks(text, chunk_size, chunk_overlap)
       IN /\ parts' = made
          /\ chunks' = [i \in 1..Len(made) |-> Join(made[i])]
          /\ processed' = Result([i \in 1..Len(made) |-> Join(made[i])])
    /\ cpc' = "sentence_returned"
    /\ UNCHANGED <<text, chunk_size, chunk_overlap, start>>
    /\ UNCHANGED nonChunkVars

\* process_text with the fixed strategy: _chunk_fixed(text), lines 134-138;
\* size and overlap are those of the processor.
ChunkFixed ==
    /\ cpc = "ready"
    /\ cpc' = "fixed"
    /\ chunks' = <<>>
    /\ parts' = <<>>
    /\ start' = 0
    /\ UNCHANGED <<text, chunk_size, chunk_overlap, processed>>
    /\ UNCHANGED nonChunkVars

\* process_text with the token strategy: _chunk_by_tokens(text), lines
\* 119-125, enters _chunk_fixed with four times the size and the overlap.
ChunkByTokens ==
    /\ cpc = "ready"
    /\ cpc' = "token"
    /\ chunks' = <<>>
    /\ parts' = <<>>
    /\ start' = 0
    /\ UNCHANGED <<text, chunk_size, chunk_overlap, processed>>
    /\ UNCHANGED nonChunkVars

\* _chunk_fixed, lines 140-158: the test of the while loop and one pass of
\* its body, or the return, which process_text follows with lines 67-76.
ChunkFixedStep ==
    /\ cpc \in {"fixed", "token"}
    /\ LET size == FixedSize(cpc, chunk_size)
           overlap == FixedOverlap(cpc, chunk_overlap)
           returned == IF cpc = "token" THEN "token_returned" ELSE "fixed_returned"
       IN IF start < Len(text)
          THEN /\ Len(chunks) < MaxChunks
               /\ LET end == WindowEnd(text, start, size)
                      made == Append(chunks, Strip(WindowChunk(text, start, size)))
                  IN /\ chunks' = made
                     /\ parts' = Append(parts, <<start, end>>)
                     /\ start' = NextStart(end, overlap)
                     /\ IF NextStart(end, overlap) >= Len(text)
                        THEN cpc' = returned /\ processed' = Result(made)
                        ELSE cpc' = cpc /\ UNCHANGED processed
          ELSE /\ cpc' = returned
               /\ processed' = Result(chunks)
               /\ UNCHANGED <<chunks, parts, start>>
    /\ UNCHANGED <<text, chunk_size, chunk_overlap>>
    /\ UNCHANGED nonChunkVars

ChunkNext ==
    \/ ChunkBySentence
    \/ ChunkFixed
    \/ ChunkByTokens
    \/ ChunkFixedStep

SpecChunk == ChunkInit /\ [][ChunkNext]_vars

(***************************************************************************)
(* SpecStore: the methods of one vector store, PgVectorStore or            *)
(* ChromaVectorStore, called one after the other.                          *)
(***************************************************************************)
StoreInit ==
    /\ now = 0
    /\ jobs = <<>>
    /\ companies = {}
    /\ filings = [a \in Accessions |-> NoFiling]
    /\ documents = <<>>
    /\ index = {}
    /\ cache = {}
    /\ pc = [w \in Workers |-> "idle"]
    /\ sel = [w \in Workers |-> [id |-> NoJob, attempts |-> 0]]
    /\ job = [w \in Workers |-> NoJob]
    /\ doc = [w \in Workers |-> NoDoc]
    /\ nchunks = [w \in Workers |-> 0]
    /\ err = [w \in Workers |-> NoError]
    /\ ret = [w \in Workers |-> "none"]
    /\ result = [w \in Workers |-> NoFiling]
    /\ effects = [w \in Workers |-> {}]
    /\ claimCount = <<>>
    /\ mono = 0
    /\ rate2 = 16
    /\ last_request_ts = 0
    /\ prevStart = NoTime
    /\ lastStart = NoTime
    /\ lastKind = <<"none", "none">>
    /\ last_ts = [c \in Clients |-> 0]
    /\ task = [t \in Tasks |-> [pos |-> 1, phase |-> "ready"]]
    /\ wake = NoTime
    /\ accession = <<>>
    /\ archive = NoListing
    /\ files = {}
    /\ dpc = "idle"
    /\ candidates = <<>>
    /\ cand = 0
    /\ html = NoBody
    /\ derr = NoError
    /\ calls = 0
    /\ trace = <<>>
    /\ firstBody = NoBody
    /\ text = <<>>
    /\ chunk_size = 1200
    /\ chunk_overlap = 200
    /\ cpc = "ready"
    /\ chunks = <<>>
    /\ start = 0
    /\ parts = <<>>
    /\ processed = <<>>
    /\ provider \in Providers
    /\ table = <<>>
    /\ vcall = NoCall
    /\ vret = NoReturn
    /\ live = {}
    /\ config = [LLM_PROVIDER |-> "anthropic", OPENAI_API_KEY |-> EnvOpenAIKey,
                 ANTHROPIC_API_KEY |-> EnvAnthropicKey, EMBEDDING_PROVIDER |-> "openai",
                 LOCAL_EMBEDDING_MODEL |-> "all-MiniLM-L6-v2"]
    /\ llm_client = NoClient
    /\ embedding_model = NoClient
    /\ gcall = NoGatewayCall
    /\ gret = NoGatewayReturn
    /\ pipeline_top_k = 5
    /\ context_window = 4000
    /\ ranking = <<>>
    /\ rag = [q \in RagTasks |-> NoQuery]
    /\ worker = "loop"
    /\ max_requests = 120
    /\ window_seconds = 60
    /\ monotonic = 0
    /\ buckets = [i \in Identifiers |-> <<>>]
    /\ allowing = [t \in Threads |-> NotAllowing]
    /\ verdicts = <<>>
    /\ DEBUG = FALSE
    /\ API_KEY = <<>>
    /\ api_keys = <<>>
    /\ utcnow = 0
    /\ auth = NoAuth
    /\ filing_text = <<>>
    /\ sections = <<>>
    /\ ppc = "idle"
    /\ filing_hits = <<>>
    /\ include_compare = FALSE
    /\ apc = "idle"
    /\ ingested = <<>>
    /\ attempted = <<>>
    /\ rag_result = "none"
    /\ compare_result = "None"
    /\ stream_client = "openai"
    /\ spc = "idle"
    /\ stream_model = "None"
    /\ events = 0
    /\ sse = <<>>
    /\ stream_error = "none"

\* add_documents(documents).  The ids of the documents given to a Chroma
\* collection are new ones, as the callers make them.
AddDocuments(batch) ==
    /\ Len(table) + Len(batch) <= MaxRows
    /\ provider = "chroma" => UniqueIds(table \o ChromaRows(batch))
    /\ vcall' = StoreCall("add_documents", batch, <<>>, 0, NoFilter, <<>>)
    /\ LET ids == [i \in 1..Len(batch) |-> batch[i].id]
           added == {<<batch[i].id, batch[i].content>> : i \in 1..Len(batch)}
           returned == StoreReturn(NoError, ids, <<>>, <<>>, FALSE, 0)
       IN IF batch = <<>>
          THEN /\ vret' = returned
               /\ UNCHANGED <<table, live>>
          ELSE IF provider = "pgvector"
          THEN LET bad == FirstError(batch, PgAddError)
                   rows == PgRows(table, batch)
               IN IF bad # 0
                  THEN /\ table' = Rollback(table, SubSeq(rows, 1, bad - 1))
                       /\ vret' = Raised(PgAddError(batch[bad]))
                       /\ UNCHANGED live
                  ELSE IF ~UniqueIds(table \o rows)
                  THEN /\ table' = Rollback(table, rows)
                       /\ vret' = Raised("IntegrityError")
                       /\ UNCHANGED live
                  ELSE /\ table' = table \o rows
                       /\ vret' = returned
                       /\ live' = live \cup added
          ELSE LET bad == FirstError(batch, ChromaAddError)
               IN IF bad # 0
                  THEN /\ vret' = Raised(ChromaAddError(batch[bad]))
                       /\ UNCHANGED <<table, live>>
                  ELSE /\ table' = table \o ChromaRows(batch)
                       /\ vret' = returned
                       /\ live' = live \cup added
    /\ UNCHANGED provider
    /\ UNCHANGED nonStoreVars

\* search(query_embedding, top_k, filter)
Search(query, top_k, filter) ==
    /\ vcall' = StoreCall("search", <<>>, query, top_k, filter, <<>>)
    /\ LET matching ==
               {i \in 1..Len(table) :
                   IF provider = "pgvector"
                   THEN PgMatches(table[i], filter)
                   ELSE ChromaMatches(table[i], filter)}
       IN \E s \in Nearest(table, matching, query, top_k) :
             vret' = StoreReturn(NoError, <<>>,
                        [i \in 1..Len(s) |->
                            LET row == table[s[i]]
                                distance == Distance(row.embedding, query)
                            IN IF provider = "pgvector"
                               THEN SearchResult(row.id, row.content, row.chunk_metadata,
                                                 PgScore(distance))
                               ELSE SearchResult(row.id, row.content, row.metadata,
                                                 ChromaScore(distance))],
                        <<>>, FALSE, 0)
    /\ UNCHANGED <<provider, table, live>>
    /\ UNCHANGED nonStoreVars

\* delete(ids): PgVectorStore deletes the rows of the ids that are UUIDs and
\* passes over the other ids; ChromaVectorStore deletes every id.
Delete(ids) ==
    /\ vcall' = StoreCall("delete", <<>>, <<>>, 0, NoFilter, ids)
    /\ LET given == {ids[i] : i \in 1..Len(ids)}
           uuid_ids == {UuidOf(id) : id \in {x \in given : IsUuid(x)}}
           Kept(row) == IF provider = "pgvector"
                        THEN row.id \notin uuid_ids
                        ELSE row.id \notin given
       IN /\ table' = SelectSeq(table, Kept)
          /\ live' = {p \in live : p[1] \notin given}
    /\ vret' = StoreReturn(NoError, <<>>, <<>>, <<>>, TRUE, 0)
    /\ UNCHANGED provider
    /\ UNCHANGED nonStoreVars

\* get_by_id(id): in PgVectorStore UUID(id) raises ValueError for an id that
\* is no UUID, and the except clause returns None.
GetById(id) ==
    /\ vcall' = StoreCall("get_by_id", <<>>, <<>>, 0, NoFilter, <<id>>)
    /\ LET found == {i \in 1..Len(table) :
                        IF provider = "pgvector"
                        THEN IsUuid(id) /\ table[i].id = UuidOf(id)
                        ELSE table[i].id = id}
           row == table[CHOOSE i \in found : \A j \in found : i <= j]
       IN vret' = StoreReturn(NoError, <<>>, <<>>,
                     IF found = {} THEN <<>>
                     ELSE IF provider = "pgvector"
                          THEN <<[id |-> row.id, content |-> row.content,
                                  metadata |-> row.chunk_metadata]>>
                          ELSE <<[id |-> id, content |-> row.content,
                                  metadata |-> row.metadata]>>,
                     FALSE, 0)
    /\ UNCHANGED <<provider, table, live>>
    /\ UNCHANGED nonStoreVars

\* count()
Count ==
    /\ vcall' = StoreCall("count", <<>>, <<>>, 0, NoFilter, <<>>)
    /\ vret' = StoreReturn(NoError, <<>>, <<>>, <<>>, FALSE, Len(table))
    /\ UNCHANGED <<provider, table, live>>
    /\ UNCHANGED nonStoreVars

\* clear()
Clear ==
    /\ vcall' = StoreCall("clear", <<>>, <<>>, 0, NoFilter, <<>>)
    /\ table' = <<>>
    /\ live' = {}
    /\ vret' = StoreReturn(NoError, <<>>, <<>>, <<>>, TRUE, 0)
    /\ UNCHANGED provider
    /\ UNCHANGED nonStoreVars

StoreNext ==
    \/ \E batch \in Batches : AddDocuments(batch)
    \/ \E query \in Vectors, top_k \in 1..MaxTopK, filter \in Filters :
          Search(query, top_k, filter)
    \/ \E id \in CallerIds : Delete(<<id>>)
    \/ \E id \in CallerIds : GetById(id)
    \/ Count
    \/ Clear

SpecStore == StoreInit /\ [][StoreNext]_vars

(***************************************************************************)
(* SpecGateway: get_llm_client and get_embedding_model, called one after   *)
(* the other with any provider and any key.                                *)
(***************************************************************************)
GatewayInit ==
    /\ now = 0
    /\ jobs = <<>>
    /\ companies = {}
    /\ filings = [a \in Accessions |-> NoFiling]
    /\ documents = <<>>
    /\ index = {}
    /\ cache = {}
    /\ pc = [w \in Workers |-> "idle"]
    /\ sel = [w \in Workers |-> [id |-> NoJob, attempts |-> 0]]
    /\ job = [w \in Workers |-> NoJob]
    /\ doc = [w \in Workers |-> NoDoc]
    /\ nchunks = [w \in Workers |-> 0]
    /\ err = [w \in Workers |-> NoError]
    /\ ret = [w \in Workers |-> "none"]
    /\ result = [w \in Workers |-> NoFiling]
    /\ effects = [w \in Workers |-> {}]
    /\ claimCount = <<>>
    /\ mono = 0
    /\ rate2 = 16
    /\ last_request_ts = 0
    /\ prevStart = NoTime
    /\ lastStart = NoTime
    /\ lastKind = <<"none", "none">>
    /\ last_ts = [c \in Clients |-> 0]
    /\ task = [t \in Tasks |-> [pos |-> 1, phase |-> "ready"]]
    /\ wake = NoTime
    /\ accession = <<>>
    /\ archive = NoListing
    /\ files = {}
    /\ dpc = "idle"
    /\ candidates = <<>>
    /\ cand = 0
    /\ html = NoBody
    /\ derr = NoError
    /\ calls = 0
    /\ trace = <<>>
    /\ firstBody = NoBody
    /\ text = <<>>
    /\ chunk_size = 1200
    /\ chunk_overlap = 200
    /\ cpc = "ready"
    /\ chunks = <<>>
    /\ start = 0
    /\ parts = <<>>
    /\ processed = <<>>
    /\ provider = "pgvector"
    /\ table = <<>>
    /\ vcall = NoCall
    /\ vret = NoReturn
    /\ live = {}
    /\ config \in Configs
    /\ llm_client = NoClient
    /\ embedding_model = NoClient
    /\ gcall = NoGatewayCall
    /\ gret = NoGatewayReturn
    /\ pipeline_top_k = 5
    /\ context_window = 4000
    /\ ranking = <<>>
    /\ rag = [q \in RagTasks |-> NoQuery]
    /\ worker = "loop"
    /\ max_requests = 120
    /\ window_seconds = 60
    /\ monotonic = 0
    /\ buckets = [i \in Identifiers |-> <<>>]
    /\ allowing = [t \in Threads |-> NotAllowing]
    /\ verdicts = <<>>
    /\ DEBUG = FALSE
    /\ API_KEY = <<>>
    /\ api_keys = <<>>
    /\ utcnow = 0
    /\ auth = NoAuth
    /\ filing_text = <<>>
    /\ sections = <<>>
    /\ ppc = "idle"
    /\ filing_hits = <<>>
    /\ include_compare = FALSE
    /\ apc = "idle"
    /\ ingested = <<>>
    /\ attempted = <<>>
    /\ rag_result = "none"
    /\ compare_result = "None"
    /\ stream_client = "openai"
    /\ spc = "idle"
    /\ stream_model = "None"
    /\ events = 0
    /\ sse = <<>>
    /\ stream_error = "none"

\* get_llm_client(provider, api_key)
CallGetLlmClient(requested, api_key) ==
    /\ LET out == GetLlmClient(config, llm_client, requested, api_key)
       IN /\ llm_client' = out.cache
          /\ gret' = GatewayReturn(out.client, out.error)
    /\ gcall' = GatewayCall("get_llm_client", requested, None, api_key)
    /\ UNCHANGED <<config, embedding_model, pipeline_top_k, context_window, ranking, rag>>
    /\ UNCHANGED nonRagVars

\* get_embedding_model(provider, model_name, api_key)
CallGetEmbeddingModel(requested, model_name, api_key) ==
    /\ LET out == GetEmbeddingModel(config, embedding_model, requested, model_name, api_key)
       IN /\ embedding_model' = out.cache
          /\ gret' = GatewayReturn(out.client, out.error)
    /\ gcall' = GatewayCall("get_embedding_model", requested, model_name, api_key)
    /\ UNCHANGED <<config, llm_client, pipeline_top_k, context_window, ranking, rag>>
    /\ UNCHANGED nonRagVars

GatewayNext ==
    \/ \E requested \in {None, "openai", "anthropic", "azure"},
          api_key \in {None, ""} \cup CallerKeys :
          CallGetLlmClient(requested, api_key)
    \/ \E requested \in {None, "openai", "local", "azure"},
          model_name \in {None, "text-embedding-3-large"},
          api_key \in {None, ""} \cup CallerKeys :
          CallGetEmbeddingModel(requested, model_name, api_key)

SpecGateway == GatewayInit /\ [][GatewayNext]_vars

(***************************************************************************)
(* SpecRag and SpecRagTasks: POST /rag/query.  rag_query sets the top_k of *)
(* the pipeline of the module and awaits query_async, which awaits the     *)
(* embedding of the question and the completion; other requests run        *)
(* during these awaits.  SpecRag runs one request over any index, window   *)
(* and configuration; SpecRagTasks runs two requests at a time.            *)
(***************************************************************************)
RagInit ==
    /\ now = 0
    /\ jobs = <<>>
    /\ companies = {}
    /\ filings = [a \in Accessions |-> NoFiling]
    /\ documents = <<>>
    /\ index = {}
    /\ cache = {}
    /\ pc = [w \in Workers |-> "idle"]
    /\ sel = [w \in Workers |-> [id |-> NoJob, attempts |-> 0]]
    /\ job = [w \in Workers |-> NoJob]
    /\ doc = [w \in Workers |-> NoDoc]
    /\ nchunks = [w \in Workers |-> 0]
    /\ err = [w \in Workers |-> NoError]
    /\ ret = [w \in Workers |-> "none"]
    /\ result = [w \in Workers |-> NoFiling]
    /\ effects = [w \in Workers |-> {}]
    /\ claimCount = <<>>
    /\ mono = 0
    /\ rate2 = 16
    /\ last_request_ts = 0
    /\ prevStart = NoTime
    /\ lastStart = NoTime
    /\ lastKind = <<"none", "none">>
    /\ last_ts = [c \in Clients |-> 0]
    /\ task = [t \in Tasks |-> [pos |-> 1, phase |-> "ready"]]
    /\ wake = NoTime
    /\ accession = <<>>
    /\ archive = NoListing
    /\ files = {}
    /\ dpc = "idle"
    /\ candidates = <<>>
    /\ cand = 0
    /\ html = NoBody
    /\ derr = NoError
    /\ calls = 0
    /\ trace = <<>>
    /\ firstBody = NoBody
    /\ text = <<>>
    /\ chunk_size = 1200
    /\ chunk_overlap = 200
    /\ cpc = "ready"
    /\ chunks = <<>>
    /\ start = 0
    /\ parts = <<>>
    /\ processed = <<>>
    /\ provider = "pgvector"
    /\ table = <<>>
    /\ vcall = NoCall
    /\ vret = NoReturn
    /\ live = {}
    /\ config \in Configs
    /\ llm_client = NoClient
    /\ embedding_model = NoClient
    /\ gcall = NoGatewayCall
    /\ gret = NoGatewayReturn
    /\ pipeline_top_k = 5
    /\ context_window \in 1..MaxWindow
    /\ ranking \in Rankings
    /\ rag = [q \in RagTasks |-> IF q = "q1" THEN NoQuery ELSE [NoQuery EXCEPT !.pc = "off"]]
    /\ worker = "loop"
    /\ max_requests = 120
    /\ window_seconds = 60
    /\ monotonic = 0
    /\ buckets = [i \in Identifiers |-> <<>>]
    /\ allowing = [t \in Threads |-> NotAllowing]
    /\ verdicts = <<>>
    /\ DEBUG = FALSE
    /\ API_KEY = <<>>
    /\ api_keys = <<>>
    /\ utcnow = 0
    /\ auth = NoAuth
    /\ filing_text = <<>>
    /\ sections = <<>>
    /\ ppc = "idle"
    /\ filing_hits = <<>>
    /\ include_compare = FALSE
    /\ apc = "idle"
    /\ ingested = <<>>
    /\ attempted = <<>>
    /\ rag_result = "none"
    /\ compare_result = "None"
    /\ stream_client = "openai"
    /\ spc = "idle"
    /\ stream_model = "None"
    /\ events = 0
    /\ sse = <<>>
    /\ stream_error = "none"

RagTasksInit ==
    /\ now = 0
    /\ jobs = <<>>
    /\ companies = {}
    /\ filings = [a \in Accessions |-> NoFiling]
    /\ documents = <<>>
    /\ index = {}
    /\ cache = {}
    /\ pc = [w \in Workers |-> "idle"]
    /\ sel = [w \in Workers |-> [id |-> NoJob, attempts |-> 0]]
    /\ job = [w \in Workers |-> NoJob]
    /\ doc = [w \in Workers |-> NoDoc]
    /\ nchunks = [w \in Workers |-> 0]
    /\ err = [w \in Workers |-> NoError]
    /\ ret = [w \in Workers |-> "none"]
    /\ result = [w \in Workers |-> NoFiling]
    /\ effects = [w \in Workers |-> {}]
    /\ claimCount = <<>>
    /\ mono = 0
    /\ rate2 = 16
    /\ last_request_ts = 0
    /\ prevStart = NoTime
    /\ lastStart = NoTime
    /\ lastKind = <<"none", "none">>
    /\ last_ts = [c \in Clients |-> 0]
    /\ task = [t \in Tasks |-> [pos |-> 1, phase |-> "ready"]]
    /\ wake = NoTime
    /\ accession = <<>>
    /\ archive = NoListing
    /\ files = {}
    /\ dpc = "idle"
    /\ candidates = <<>>
    /\ cand = 0
    /\ html = NoBody
    /\ derr = NoError
    /\ calls = 0
    /\ trace = <<>>
    /\ firstBody = NoBody
    /\ text = <<>>
    /\ chunk_size = 1200
    /\ chunk_overlap = 200
    /\ cpc = "ready"
    /\ chunks = <<>>
    /\ start = 0
    /\ parts = <<>>
    /\ processed = <<>>
    /\ provider = "pgvector"
    /\ table = <<>>
    /\ vcall = NoCall
    /\ vret = NoReturn
    /\ live = {}
    /\ config = [LLM_PROVIDER |-> "anthropic", OPENAI_API_KEY |-> EnvOpenAIKey,
                 ANTHROPIC_API_KEY |-> EnvAnthropicKey, EMBEDDING_PROVIDER |-> "openai",
                 LOCAL_EMBEDDING_MODEL |-> "all-MiniLM-L6-v2"]
    /\ llm_client = NoClient
    /\ embedding_model = NoClient
    /\ gcall = NoGatewayCall
    /\ gret = NoGatewayReturn
    /\ pipeline_top_k = 5
    /\ context_window = MaxWindow
    /\ ranking \in {r \in Rankings : Len(r) = MaxResults /\ \A i \in 1..Len(r) : r[i].content = <<"a">>}
    /\ rag = [q \in RagTasks |-> NoQuery]
    /\ worker = "loop"
    /\ max_requests = 120
    /\ window_seconds = 60
    /\ monotonic = 0
    /\ buckets = [i \in Identifiers |-> <<>>]
    /\ allowing = [t \in Threads |-> NotAllowing]
    /\ verdicts = <<>>
    /\ DEBUG = FALSE
    /\ API_KEY = <<>>
    /\ api_keys = <<>>
    /\ utcnow = 0
    /\ auth = NoAuth
    /\ filing_text = <<>>
    /\ sections = <<>>
    /\ ppc = "idle"
    /\ filing_hits = <<>>
    /\ include_compare = FALSE
    /\ apc = "idle"
    /\ ingested = <<>>
    /\ attempted = <<>>
    /\ rag_result = "none"
    /\ compare_result = "None"
    /\ stream_client = "openai"
    /\ spc = "idle"
    /\ stream_model = "None"
    /\ events = 0
    /\ sse = <<>>
    /\ stream_error = "none"

\* pipeline.py lines 178-234 (74-130 in query): the context, the prompt,
\* get_llm_client and the start of the completion call.
Complete(q, state, search_top_k, search_results) ==
    LET context_chunks == ContextChunks(search_results, context_window)
        llm_provider == config.LLM_PROVIDER
        llm_api_key == IF llm_provider = "openai" THEN state.request.openai_key ELSE None
        out == GetLlmClient(config, llm_client, llm_provider, llm_api_key)
    IN /\ llm_client' = out.cache
       /\ rag' = [rag EXCEPT ![q] =
              Query(IF out.error = NoError THEN "completing" ELSE "raised",
                    state.request, state.embedding_key, state.embed_calls,
                    search_top_k, search_results, context_chunks, <<>>,
                    Prompt(context_chunks, state.request.system_prompt),
                    IF out.error = NoError THEN 1 ELSE 0, out.error)]

\* A request arrives for a task that handles none.  rag_query lines 64-100
\* and query_async lines 160-166: up to the await of
\* embed_async, or up to the await of ask_async when retrieval is skipped.
RagBegin(q, request) ==
    /\ rag[q].pc \in {"idle", "returned", "raised"}
    /\ pipeline_top_k' = IF request.top_k # 0 THEN request.top_k ELSE pipeline_top_k
    /\ LET embedding_key == EmbeddingKey(config, request.openai_key)
           begun == Query("idle", request, embedding_key, 0, NoSearch, <<>>, <<>>, <<>>,
                          None, 0, NoError)
       IN IF Retrieves(config, embedding_key)
          THEN LET out == GetEmbeddingModel(config, embedding_model,
                                            config.EMBEDDING_PROVIDER, None, embedding_key)
               IN /\ embedding_model' = out.cache
                  /\ rag' = [rag EXCEPT ![q] =
                         IF out.error = NoError
                         THEN [begun EXCEPT !.pc = "embedding", !.embed_calls = 1]
                         ELSE [begun EXCEPT !.pc = "raised", !.error = out.error]]
                  /\ UNCHANGED llm_client
          ELSE /\ Complete(q, begun, NoSearch, <<>>)
               /\ UNCHANGED embedding_model
    /\ UNCHANGED <<config, context_window, ranking, gcall, gret>>
    /\ UNCHANGED nonRagVars

\* query_async lines 166-234: the embedding is there; the search with the
\* top_k of the pipeline, then as above up to the await of ask_async.
RagRetrieve(q) ==
    /\ rag[q].pc = "embedding"
    /\ Complete(q, rag[q], pipeline_top_k, SearchResults(ranking, pipeline_top_k))
    /\ UNCHANGED <<config, embedding_model, pipeline_top_k, context_window, ranking,
                   gcall, gret>>
    /\ UNCHANGED nonRagVars

\* query_async lines 236-250: the completion is there; the result.
RagAnswer(q) ==
    /\ rag[q].pc = "completing"
    /\ rag' = [rag EXCEPT ![q].pc = "returned",
                          ![q].sources = Sources(rag[q].search_results, rag[q].context)]
    /\ UNCHANGED <<config, llm_client, embedding_model, pipeline_top_k, context_window,
                   ranking, gcall, gret>>
    /\ UNCHANGED nonRagVars

RagNext ==
    \/ \E q \in RagTasks, request \in RagRequests : RagBegin(q, request)
    \/ \E q \in RagTasks : RagRetrieve(q)
    \/ \E q \in RagTasks : RagAnswer(q)

SpecRag == RagInit /\ [][RagNext]_vars

SpecRagTasks == RagTasksInit /\ [][RagNext]_vars

(***************************************************************************)
(* SpecLimiter: one RateLimiter, called by the threads of one process.     *)
(***************************************************************************)
LimiterInit ==
    /\ now = 0
    /\ jobs = <<>>
    /\ companies = {}
    /\ filings = [a \in Accessions |-> NoFiling]
    /\ documents = <<>>
    /\ index = {}
    /\ cache = {}
    /\ pc = [w \in Workers |-> "idle"]
    /\ sel = [w \in Workers |-> [id |-> NoJob, attempts |-> 0]]
    /\ job = [w \in Workers |-> NoJob]
    /\ doc = [w \in Workers |-> NoDoc]
    /\ nchunks = [w \in Workers |-> 0]
    /\ err = [w \in Workers |-> NoError]
    /\ ret = [w \in Workers |-> "none"]
    /\ result = [w \in Workers |-> NoFiling]
    /\ effects = [w \in Workers |-> {}]
    /\ claimCount = <<>>
    /\ mono = 0
    /\ rate2 = 16
    /\ last_request_ts = 0
    /\ prevStart = NoTime
    /\ lastStart = NoTime
    /\ lastKind = <<"none", "none">>
    /\ last_ts = [c \in Clients |-> 0]
    /\ task = [t \in Tasks |-> [pos |-> 1, phase |-> "ready"]]
    /\ wake = NoTime
    /\ accession = <<>>
    /\ archive = NoListing
    /\ files = {}
    /\ dpc = "idle"
    /\ candidates = <<>>
    /\ cand = 0
    /\ html = NoBody
    /\ derr = NoError
    /\ calls = 0
    /\ trace = <<>>
    /\ firstBody = NoBody
    /\ text = <<>>
    /\ chunk_size = 1200
    /\ chunk_overlap = 200
    /\ cpc = "ready"
    /\ chunks = <<>>
    /\ start = 0
    /\ parts = <<>>
    /\ processed = <<>>
    /\ provider = "pgvector"
    /\ table = <<>>
    /\ vcall = NoCall
    /\ vret = NoReturn
    /\ live = {}
    /\ config = [LLM_PROVIDER |-> "anthropic", OPENAI_API_KEY |-> EnvOpenAIKey,
                 ANTHROPIC_API_KEY |-> EnvAnthropicKey, EMBEDDING_PROVIDER |-> "openai",
                 LOCAL_EMBEDDING_MODEL |-> "all-MiniLM-L6-v2"]
    /\ llm_client = NoClient
    /\ embedding_model = NoClient
    /\ gcall = NoGatewayCall
    /\ gret = NoGatewayReturn
    /\ pipeline_top_k = 5
    /\ context_window = 4000
    /\ ranking = <<>>
    /\ rag = [q \in RagTasks |-> NoQuery]
    /\ worker = "loop"
    /\ max_requests \in Limits
    /\ window_seconds \in Windows
    /\ monotonic = 0
    /\ buckets = [i \in Identifiers |-> <<>>]
    /\ allowing = [t \in Threads |-> NotAllowing]
    /\ verdicts = <<>>
    /\ DEBUG = FALSE
    /\ API_KEY = <<>>
    /\ api_keys = <<>>
    /\ utcnow = 0
    /\ auth = NoAuth
    /\ filing_text = <<>>
    /\ sections = <<>>
    /\ ppc = "idle"
    /\ filing_hits = <<>>
    /\ include_compare = FALSE
    /\ apc = "idle"
    /\ ingested = <<>>
    /\ attempted = <<>>
    /\ rag_result = "none"
    /\ compare_result = "None"
    /\ stream_client = "openai"
    /\ spc = "idle"
    /\ stream_model = "None"
    /\ events = 0
    /\ sse = <<>>
    /\ stream_error = "none"

\* time.monotonic() advances.
LimiterTick ==
    /\ monotonic < MaxTicks
    /\ monotonic' = monotonic + 1
    /\ UNCHANGED <<max_requests, window_seconds, buckets, allowing, verdicts>>
    /\ UNCHANGED nonLimiterVars

\* allow, lines 20-21: now and cutoff are read before the lock is taken.
AllowRead(t, identifier) ==
    /\ allowing[t].pc = "idle"
    /\ Len(verdicts) + Cardinality({u \in Threads : allowing[u].pc = "read"}) < MaxAllows
    /\ allowing' = [allowing EXCEPT ![t] =
                       [pc |-> "read", identifier |-> identifier, now |-> monotonic]]
    /\ UNCHANGED <<max_requests, window_seconds, monotonic, buckets, verdicts>>
    /\ UNCHANGED nonLimiterVars

\* allow, lines 22-32: the body under the lock, which no other thread's
\* body interleaves with, and the return.
AllowDecide(t) ==
    /\ allowing[t].pc = "read"
    /\ LET identifier == allowing[t].identifier
           cutoff == allowing[t].now - window_seconds
           bucket == PopExpired(buckets[identifier], cutoff)
           allowed == Allows(bucket, max_requests)
       IN /\ buckets' = [buckets EXCEPT ![identifier] =
                            IF allowed THEN Append(bucket, allowing[t].now) ELSE bucket]
          /\ verdicts' = Append(verdicts,
                                [identifier |-> identifier, now |-> allowing[t].now,
                                 at |-> monotonic, allowed |-> allowed])
    /\ allowing' = [allowing EXCEPT ![t] = NotAllowing]
    /\ UNCHANGED <<max_requests, window_seconds, monotonic>>
    /\ UNCHANGED nonLimiterVars

LimiterNext ==
    \/ LimiterTick
    \/ \E t \in Threads, identifier \in Identifiers : AllowRead(t, identifier)
    \/ \E t \in Threads : AllowDecide(t)

SpecLimiter == LimiterInit /\ [][LimiterNext]_vars

(***************************************************************************)
(* SpecSecurity: calls of require_api_key in one process.                  *)
(***************************************************************************)
SecurityInit ==
    /\ now = 0
    /\ jobs = <<>>
    /\ companies = {}
    /\ filings = [a \in Accessions |-> NoFiling]
    /\ documents = <<>>
    /\ index = {}
    /\ cache = {}
    /\ pc = [w \in Workers |-> "idle"]
    /\ sel = [w \in Workers |-> [id |-> NoJob, attempts |-> 0]]
    /\ job = [w \in Workers |-> NoJob]
    /\ doc = [w \in Workers |-> NoDoc]
    /\ nchunks = [w \in Workers |-> 0]
    /\ err = [w \in Workers |-> NoError]
    /\ ret = [w \in Workers |-> "none"]
    /\ result = [w \in Workers |-> NoFiling]
    /\ effects = [w \in Workers |-> {}]
    /\ claimCount = <<>>
    /\ mono = 0
    /\ rate2 = 16
    /\ last_request_ts = 0
    /\ prevStart = NoTime
    /\ lastStart = NoTime
    /\ lastKind = <<"none", "none">>
    /\ last_ts = [c \in Clients |-> 0]
    /\ task = [t \in Tasks |-> [pos |-> 1, phase |-> "ready"]]
    /\ wake = NoTime
    /\ accession = <<>>
    /\ archive = NoListing
    /\ files = {}
    /\ dpc = "idle"
    /\ candidates = <<>>
    /\ cand = 0
    /\ html = NoBody
    /\ derr = NoError
    /\ calls = 0
    /\ trace = <<>>
    /\ firstBody = NoBody
    /\ text = <<>>
    /\ chunk_size = 1200
    /\ chunk_overlap = 200
    /\ cpc = "ready"
    /\ chunks = <<>>
    /\ start = 0
    /\ parts = <<>>
    /\ processed = <<>>
    /\ provider = "pgvector"
    /\ table = <<>>
    /\ vcall = NoCall
    /\ vret = NoReturn
    /\ live = {}
    /\ config = [LLM_PROVIDER |-> "anthropic", OPENAI_API_KEY |-> EnvOpenAIKey,
                 ANTHROPIC_API_KEY |-> EnvAnthropicKey, EMBEDDING_PROVIDER |-> "openai",
                 LOCAL_EMBEDDING_MODEL |-> "all-MiniLM-L6-v2"]
    /\ llm_client = NoClient
    /\ embedding_model = NoClient
    /\ gcall = NoGatewayCall
    /\ gret = NoGatewayReturn
    /\ pipeline_top_k = 5
    /\ context_window = 4000
    /\ ranking = <<>>
    /\ rag = [q \in RagTasks |-> NoQuery]
    /\ worker = "loop"
    /\ max_requests = 120
    /\ window_seconds = 60
    /\ monotonic = 0
    /\ buckets = [i \in Identifiers |-> <<>>]
    /\ allowing = [t \in Threads |-> NotAllowing]
    /\ verdicts = <<>>
    /\ DEBUG \in BOOLEAN
    /\ API_KEY \in {<<>>, EnvKey}
    /\ api_keys \in ApiKeyTables
    /\ utcnow = 0
    /\ auth = NoAuth
    /\ filing_text = <<>>
    /\ sections = <<>>
    /\ ppc = "idle"
    /\ filing_hits = <<>>
    /\ include_compare = FALSE
    /\ apc = "idle"
    /\ ingested = <<>>
    /\ attempted = <<>>
    /\ rag_result = "none"
    /\ compare_result = "None"
    /\ stream_client = "openai"
    /\ spc = "idle"
    /\ stream_model = "None"
    /\ events = 0
    /\ sse = <<>>
    /\ stream_error = "none"

\* datetime.utcnow() advances.
SecurityTick ==
    /\ utcnow < MaxNow
    /\ utcnow' = utcnow + 1
    /\ UNCHANGED <<DEBUG, API_KEY, api_keys, auth>>
    /\ UNCHANGED nonSecurityVars

\* require_api_key, with _is_db_key_valid and its commit.
RequireApiKey(api_key) ==
    /\ auth.n < MaxAuths
    /\ LET outcome == RequireOutcome(DEBUG, API_KEY, api_keys, api_key, utcnow)
       IN /\ api_keys' = IF outcome = "returned by stored key"
                         THEN Touch(api_keys, api_key, utcnow)
                         ELSE api_keys
          /\ auth' = [n |-> auth.n + 1, api_key |-> api_key, outcome |-> outcome]
    /\ UNCHANGED <<DEBUG, API_KEY, utcnow>>
    /\ UNCHANGED nonSecurityVars

SecurityNext ==
    \/ SecurityTick
    \/ \E api_key \in PresentedKeys : RequireApiKey(api_key)

SpecSecurity == SecurityInit /\ [][SecurityNext]_vars

(***************************************************************************)
(* SpecParser: one call of extract_sections.                               *)
(***************************************************************************)
ParserInit ==
    /\ now = 0
    /\ jobs = <<>>
    /\ companies = {}
    /\ filings = [a \in Accessions |-> NoFiling]
    /\ documents = <<>>
    /\ index = {}
    /\ cache = {}
    /\ pc = [w \in Workers |-> "idle"]
    /\ sel = [w \in Workers |-> [id |-> NoJob, attempts |-> 0]]
    /\ job = [w \in Workers |-> NoJob]
    /\ doc = [w \in Workers |-> NoDoc]
    /\ nchunks = [w \in Workers |-> 0]
    /\ err = [w \in Workers |-> NoError]
    /\ ret = [w \in Workers |-> "none"]
    /\ result = [w \in Workers |-> NoFiling]
    /\ effects = [w \in Workers |-> {}]
    /\ claimCount = <<>>
    /\ mono = 0
    /\ rate2 = 16
    /\ last_request_ts = 0
    /\ prevStart = NoTime
    /\ lastStart = NoTime
    /\ lastKind = <<"none", "none">>
    /\ last_ts = [c \in Clients |-> 0]
    /\ task = [t \in Tasks |-> [pos |-> 1, phase |-> "ready"]]
    /\ wake = NoTime
    /\ accession = <<>>
    /\ archive = NoListing
    /\ files = {}
    /\ dpc = "idle"
    /\ candidates = <<>>
    /\ cand = 0
    /\ html = NoBody
    /\ derr = NoError
    /\ calls = 0
    /\ trace = <<>>
    /\ firstBody = NoBody
    /\ text = <<>>
    /\ chunk_size = 1200
    /\ chunk_overlap = 200
    /\ cpc = "ready"
    /\ chunks = <<>>
    /\ start = 0
    /\ parts = <<>>
    /\ processed = <<>>
    /\ provider = "pgvector"
    /\ table = <<>>
    /\ vcall = NoCall
    /\ vret = NoReturn
    /\ live = {}
    /\ config = [LLM_PROVIDER |-> "anthropic", OPENAI_API_KEY |-> EnvOpenAIKey,
                 ANTHROPIC_API_KEY |-> EnvAnthropicKey, EMBEDDING_PROVIDER |-> "openai",
                 LOCAL_EMBEDDING_MODEL |-> "all-MiniLM-L6-v2"]
    /\ llm_client = NoClient
    /\ embedding_model = NoClient
    /\ gcall = NoGatewayCall
    /\ gret = NoGatewayReturn
    /\ pipeline_top_k = 5
    /\ context_window = 4000
    /\ ranking = <<>>
    /\ rag = [q \in RagTasks |-> NoQuery]
    /\ worker = "loop"
    /\ max_requests = 120
    /\ window_seconds = 60
    /\ monotonic = 0
    /\ buckets = [i \in Identifiers |-> <<>>]
    /\ allowing = [t \in Threads |-> NotAllowing]
    /\ verdicts = <<>>
    /\ DEBUG = FALSE
    /\ API_KEY = <<>>
    /\ api_keys = <<>>
    /\ utcnow = 0
    /\ auth = NoAuth
    /\ filing_text \in FilingTexts
    /\ sections = <<>>
    /\ ppc = "called"
    /\ filing_hits = <<>>
    /\ include_compare = FALSE
    /\ apc = "idle"
    /\ ingested = <<>>
    /\ attempted = <<>>
    /\ rag_result = "none"
    /\ compare_result = "None"
    /\ stream_client = "openai"
    /\ spc = "idle"
    /\ stream_model = "None"
    /\ events = 0
    /\ sse = <<>>
    /\ stream_error = "none"

ExtractSections ==
    /\ ppc = "called"
    /\ sections' = ExtractSectionsOf(filing_text)
    /\ ppc' = "returned"
    /\ UNCHANGED filing_text
    /\ UNCHANGED nonParserVars

ParserNext == ExtractSections

SpecParser == ParserInit /\ [][ParserNext]_vars

(***************************************************************************)
(* SpecAgent: one call of ResearchAgent.run from the research route.  The  *)
(* route awaits run without a try statement, so what run raises leaves     *)
(* the route as well.                                                      *)
(***************************************************************************)
AgentInit ==
    /\ now = 0
    /\ jobs = <<>>
    /\ companies = {}
    /\ filings = [a \in Accessions |-> NoFiling]
    /\ documents = <<>>
    /\ index = {}
    /\ cache = {}
    /\ pc = [w \in Workers |-> "idle"]
    /\ sel = [w \in Workers |-> [id |-> NoJob, attempts |-> 0]]
    /\ job = [w \in Workers |-> NoJob]
    /\ doc = [w \in Workers |-> NoDoc]
    /\ nchunks = [w \in Workers |-> 0]
    /\ err = [w \in Workers |-> NoError]
    /\ ret = [w \in Workers |-> "none"]
    /\ result = [w \in Workers |-> NoFiling]
    /\ effects = [w \in Workers |-> {}]
    /\ claimCount = <<>>
    /\ mono = 0
    /\ rate2 = 16
    /\ last_request_ts = 0
    /\ prevStart = NoTime
    /\ lastStart = NoTime
    /\ lastKind = <<"none", "none">>
    /\ last_ts = [c \in Clients |-> 0]
    /\ task = [t \in Tasks |-> [pos |-> 1, phase |-> "ready"]]
    /\ wake = NoTime
    /\ accession = <<>>
    /\ archive = NoListing
    /\ files = {}
    /\ dpc = "idle"
    /\ candidates = <<>>
    /\ cand = 0
    /\ html = NoBody
    /\ derr = NoError
    /\ calls = 0
    /\ trace = <<>>
    /\ firstBody = NoBody
    /\ text = <<>>
    /\ chunk_size = 1200
    /\ chunk_overlap = 200
    /\ cpc = "ready"
    /\ chunks = <<>>
    /\ start = 0
    /\ parts = <<>>
    /\ processed = <<>>
    /\ provider = "pgvector"
    /\ table = <<>>
    /\ vcall = NoCall
    /\ vret = NoReturn
    /\ live = {}
    /\ config = [LLM_PROVIDER |-> "anthropic", OPENAI_API_KEY |-> EnvOpenAIKey,
                 ANTHROPIC_API_KEY |-> EnvAnthropicKey, EMBEDDING_PROVIDER |-> "openai",
                 LOCAL_EMBEDDING_MODEL |-> "all-MiniLM-L6-v2"]
    /\ llm_client = NoClient
    /\ embedding_model = NoClient
    /\ gcall = NoGatewayCall
    /\ gret = NoGatewayReturn
    /\ pipeline_top_k = 5
    /\ context_window = 4000
    /\ ranking = <<>>
    /\ rag = [q \in RagTasks |-> NoQuery]
    /\ worker = "loop"
    /\ max_requests = 120
    /\ window_seconds = 60
    /\ monotonic = 0
    /\ buckets = [i \in Identifiers |-> <<>>]
    /\ allowing = [t \in Threads |-> NotAllowing]
    /\ verdicts = <<>>
    /\ DEBUG = FALSE
    /\ API_KEY = <<>>
    /\ api_keys = <<>>
    /\ utcnow = 0
    /\ auth = NoAuth
    /\ filing_text = <<>>
    /\ sections = <<>>
    /\ ppc = "idle"
    /\ filing_hits = <<>>
    /\ include_compare \in BOOLEAN
    /\ apc = "called"
    /\ ingested = <<>>
    /\ attempted = <<>>
    /\ rag_result = "none"
    /\ compare_result = "None"
    /\ stream_client = "openai"
    /\ spc = "idle"
    /\ stream_model = "None"
    /\ events = 0
    /\ sse = <<>>
    /\ stream_error = "none"

\* lines 43-52: search_filings returns search_results, or raises.
AgentSearch ==
    /\ apc = "called"
    /\ \/ /\ filing_hits' \in HitLists
          /\ apc' = "ingesting"
       \/ /\ apc' = "raised in search"
          /\ UNCHANGED filing_hits
    /\ UNCHANGED <<include_compare, ingested, attempted, rag_result, compare_result>>
    /\ UNCHANGED nonAgentVars

\* lines 53-65, one pass of the loop: the next hit with an accession number
\* is ingested and its filing appended, or ingest_filing raises and the
\* exception leaves run.
AgentIngest ==
    /\ apc = "ingesting"
    /\ Len(attempted) < Len(WithAccession(filing_hits))
    /\ LET accession_number == WithAccession(filing_hits)[Len(attempted) + 1]
       IN /\ attempted' = Append(attempted, accession_number)
          /\ \/ /\ ingested' = Append(ingested, accession_number)
                /\ UNCHANGED apc
             \/ /\ apc' = "raised in ingest_filing"
                /\ UNCHANGED ingested
    /\ UNCHANGED <<filing_hits, include_compare, rag_result, compare_result>>
    /\ UNCHANGED nonAgentVars

\* lines 67-78: behind the loop, rag.query_async.
AgentRetrieve ==
    /\ apc = "ingesting"
    /\ Len(attempted) = Len(WithAccession(filing_hits))
    /\ \/ /\ rag_result' = "answer"
          /\ apc' = "retrieved"
       \/ /\ apc' = "raised in query_async"
          /\ UNCHANGED rag_result
    /\ UNCHANGED <<filing_hits, include_compare, ingested, attempted, compare_result>>
    /\ UNCHANGED nonAgentVars

\* lines 80-106: the comparison of the first two filings, and the return.
AgentReturn ==
    /\ apc = "retrieved"
    /\ IF Compares(include_compare, ingested)
       THEN \/ /\ compare_result' = <<ingested[1], ingested[2]>>
               /\ apc' = "returned"
            \/ /\ apc' = "raised in compare"
               /\ UNCHANGED compare_result
       ELSE /\ apc' = "returned"
            /\ UNCHANGED compare_result
    /\ UNCHANGED <<filing_hits, include_compare, ingested, attempted, rag_result>>
    /\ UNCHANGED nonAgentVars

AgentNext ==
    \/ AgentSearch
    \/ AgentIngest
    \/ AgentRetrieve
    \/ AgentReturn

SpecAgent == AgentInit /\ [][AgentNext]_vars

(***************************************************************************)
(* SpecStream: one response of ask_stream, from the first step of generate *)
(* on.  The event loop keeps running generate, and a provider's stream     *)
(* ends or fails after finitely many events.                               *)
(***************************************************************************)
StreamInit ==
    /\ now = 0
    /\ jobs = <<>>
    /\ companies = {}
    /\ filings = [a \in Accessions |-> NoFiling]
    /\ documents = <<>>
    /\ index = {}
    /\ cache = {}
    /\ pc = [w \in Workers |-> "idle"]
    /\ sel = [w \in Workers |-> [id |-> NoJob, attempts |-> 0]]
    /\ job = [w \in Workers |-> NoJob]
    /\ doc = [w \in Workers |-> NoDoc]
    /\ nchunks = [w \in Workers |-> 0]
    /\ err = [w \in Workers |-> NoError]
    /\ ret = [w \in Workers |-> "none"]
    /\ result = [w \in Workers |-> NoFiling]
    /\ effects = [w \in Workers |-> {}]
    /\ claimCount = <<>>
    /\ mono = 0
    /\ rate2 = 16
    /\ last_request_ts = 0
    /\ prevStart = NoTime
    /\ lastStart = NoTime
    /\ lastKind = <<"none", "none">>
    /\ last_ts = [c \in Clients |-> 0]
    /\ task = [t \in Tasks |-> [pos |-> 1, phase |-> "ready"]]
    /\ wake = NoTime
    /\ accession = <<>>
    /\ archive = NoListing
    /\ files = {}
    /\ dpc = "idle"
    /\ candidates = <<>>
    /\ cand = 0
    /\ html = NoBody
    /\ derr = NoError
    /\ calls = 0
    /\ trace = <<>>
    /\ firstBody = NoBody
    /\ text = <<>>
    /\ chunk_size = 1200
    /\ chunk_overlap = 200
    /\ cpc = "ready"
    /\ chunks = <<>>
    /\ start = 0
    /\ parts = <<>>
    /\ processed = <<>>
    /\ provider = "pgvector"
    /\ table = <<>>
    /\ vcall = NoCall
    /\ vret = NoReturn
    /\ live = {}
    /\ config = [LLM_PROVIDER |-> "anthropic", OPENAI_API_KEY |-> EnvOpenAIKey,
                 ANTHROPIC_API_KEY |-> EnvAnthropicKey, EMBEDDING_PROVIDER |-> "openai",
                 LOCAL_EMBEDDING_MODEL |-> "all-MiniLM-L6-v2"]
    /\ llm_client = NoClient
    /\ embedding_model = NoClient
    /\ gcall = NoGatewayCall
    /\ gret = NoGatewayReturn
    /\ pipeline_top_k = 5
    /\ context_window = 4000
    /\ ranking = <<>>
    /\ rag = [q \in RagTasks |-> NoQuery]
    /\ worker = "loop"
    /\ max_requests = 120
    /\ window_seconds = 60
    /\ monotonic = 0
    /\ buckets = [i \in Identifiers |-> <<>>]
    /\ allowing = [t \in Threads |-> NotAllowing]
    /\ verdicts = <<>>
    /\ DEBUG = FALSE
    /\ API_KEY = <<>>
    /\ api_keys = <<>>
    /\ utcnow = 0
    /\ auth = NoAuth
    /\ filing_text = <<>>
    /\ sections = <<>>
    /\ ppc = "idle"
    /\ filing_hits = <<>>
    /\ include_compare = FALSE
    /\ apc = "idle"
    /\ ingested = <<>>
    /\ attempted = <<>>
    /\ rag_result = "none"
    /\ compare_result = "None"
    /\ stream_client \in StreamClients
    /\ spc = "streaming"
    /\ stream_model = "None"
    /\ events = 0
    /\ sse = <<>>
    /\ stream_error = "none"

\* generate, lines 125-141: the next event of stream_async; if it is
\* yielded, model_name is set with the first one and a fragment goes out.
StreamChunk(delta) ==
    /\ spc = "streaming"
    /\ events < MaxEvents
    /\ events' = events + 1
    /\ IF Yields(stream_client, delta)
       THEN /\ stream_model' = "model"
            /\ sse' = Append(sse, DataChunk(delta, "model", stream_client))
       ELSE UNCHANGED <<stream_model, sse>>
    /\ UNCHANGED <<stream_client, spc, stream_error>>
    /\ UNCHANGED nonStreamVars

\* generate, lines 143-150: the provider's stream is over.
StreamEnd ==
    /\ spc = "streaming"
    /\ sse' = Append(sse, FinalChunk(stream_model,
                                     IF stream_model = "None" THEN "None" ELSE stream_client))
    /\ spc' = "closed"
    /\ UNCHANGED <<stream_client, stream_model, events, stream_error>>
    /\ UNCHANGED nonStreamVars

\* generate, lines 152-162: stream_async raises.
StreamRaise(e) ==
    /\ spc = "streaming"
    /\ e \in StreamFailures(stream_client)
    /\ stream_error' = e
    /\ sse' = Append(sse, ErrorChunk(e))
    /\ spc' = "closed"
    /\ UNCHANGED <<stream_client, stream_model, events>>
    /\ UNCHANGED nonStreamVars

StreamNext ==
    \/ \E delta \in Deltas : StreamChunk(delta)
    \/ StreamEnd
    \/ \E e \in UNION {StreamFailures(c) : c \in StreamClients} : StreamRaise(e)

SpecStream == StreamInit /\ [][StreamNext]_vars /\ WF_vars(StreamNext)

(***************************************************************************)
(* SpecWorker: run_worker (scripts/sec_worker.py), the one caller "w1" of  *)
(* process_next, and the requests that enqueue jobs.  The worker keeps     *)
(* running and every step of ingest_filing returns or raises.              *)
(***************************************************************************)
C38_SleepsAfterWork(processed_) == processed_ = "true"

\* sec_worker.py line 26: if not processed
Sleeps(processed_) == processed_ = "false"

\* sec_worker.py lines 24-25 and claim_next_pending up to its SELECT: the
\* worker opens a session and calls process_next.  With no pending row
\* process_next returns False.
WorkerPoll ==
    /\ worker = "loop"
    /\ pc["w1"] = "idle"
    /\ IF PendingJobs = {}
       THEN /\ ret' = [ret EXCEPT !["w1"] = "false"]
            /\ UNCHANGED <<pc, sel>>
       ELSE /\ \E j \in FirstPending :
                 sel' = [sel EXCEPT !["w1"] = [id |-> j, attempts |-> jobs[j].attempts]]
            /\ pc' = [pc EXCEPT !["w1"] = "selected"]
            /\ ret' = [ret EXCEPT !["w1"] = "none"]
    /\ worker' = "awaiting"
    /\ UNCHANGED <<now, jobs, companies, filings, documents, index, cache, job, doc,
                   nchunks, err, result, effects, claimCount>>
    /\ UNCHANGED <<edgarVars, processVars, downloadVars, chunkVars, storeVars, ragVars,
                   limiterVars, securityVars, parserVars, agentVars, streamVars>>

\* sec_worker.py lines 25-27: process_next has returned; the worker sleeps
\* or goes round the loop.
WorkerResume ==
    /\ worker = "awaiting"
    /\ pc["w1"] = "idle"
    /\ ret["w1"] # "none"
    /\ worker' = IF Sleeps(ret["w1"]) THEN "sleeping" ELSE "loop"
    /\ UNCHANGED <<queueVars, edgarVars, processVars, downloadVars, chunkVars,
                   storeVars, ragVars, limiterVars, securityVars, parserVars,
                   agentVars, streamVars>>

\* asyncio.sleep(SEC_WORKER_POLL_SECONDS) is over.
WorkerWake ==
    /\ worker = "sleeping"
    /\ worker' = "loop"
    /\ UNCHANGED <<queueVars, edgarVars, processVars, downloadVars, chunkVars,
                   storeVars, ragVars, limiterVars, securityVars, parserVars,
                   agentVars, streamVars>>

\* The steps of the worker and of the process_next call it awaits.
WorkerStep ==
    \/ WorkerPoll
    \/ ClaimUpdate("w1")
    \/ IngestBegin("w1")
    \/ Fetch("w1")
    \/ EmbedStore("w1")
    \/ Finalise("w1")
    \/ MarkCompleted("w1")
    \/ MarkFailed("w1")
    \/ WorkerResume
    \/ WorkerWake

WorkerNext ==
    \/ \E r \in EnqueueRequests \cup MalformedRequests : CreateJob(r)
    \/ WorkerPoll
    \/ ClaimUpdate("w1")
    \/ IngestBegin("w1")
    \/ Fetch("w1")
    \/ EmbedStore("w1")
    \/ Finalise("w1")
    \/ MarkCompleted("w1")
    \/ MarkFailed("w1")
    \/ WorkerResume
    \/ WorkerWake

SpecWorker == Init /\ [][WorkerNext]_vars /\ WF_vars(WorkerStep)

TypeOK ==
    /\ now \in 0..MaxClock
    /\ \A j \in JobIds : jobs[j].status \in {"pending", "running", "completed", "failed"}
    /\ \A a \in Accessions : filings[a].status \in {"none", "downloading", "indexed"}
    /\ \A w \in Workers : pc[w] \in {"idle", "selected", "ingest", "download", "embed",
                                     "finalise", "returned", "raised"}

(***************************************************************************)
(* The claims.                                                             *)
(***************************************************************************)

\* C1: under any interleaving of claim_next_pending calls, a pending job is
\* flipped to running and returned to at most one caller.
C1_ClaimedByAtMostOneCaller == \A j \in JobIds : claimCount[j] <= 1

\* C2: a job's status changes only along pending -> running,
\* running -> completed and running -> failed; a completed or failed job
\* never changes its status again.
C2_StatusStateMachine ==
    [][\A j \in JobIds :
          jobs'[j].status # jobs[j].status =>
            <<jobs[j].status, jobs'[j].status>> \in
               {<<"pending", "running">>, <<"running", "completed">>,
                <<"running", "failed">>}]_vars

\* C3: ingest_filing for an accession number whose Filing is indexed returns
\* the existing Filing in one step, with no download, no embedding, no new
\* document record and no index write; filings, documents, index and cache
\* are the same before and after.
C3_IndexedIsNoOp ==
    [][\A w \in Workers :
          (pc[w] = "ingest" /\ pc'[w] # "ingest"
             /\ filings[AccessionOf(w)].status = "indexed") =>
            /\ pc'[w] = "returned"
            /\ result'[w] = filings[AccessionOf(w)]
            /\ effects'[w] = {}
            /\ doc'[w] = NoDoc
            /\ filings' = filings
            /\ documents' = documents
            /\ index' = index
            /\ Cardinality(index') = Cardinality(index)
            /\ cache' = cache]_vars

\* C3 witness: an ingest_filing call has returned an indexed Filing without
\* having created a document record.
C3_Witness ==
    \E w \in Workers :
        /\ pc[w] = "returned"
        /\ doc[w] = NoDoc
        /\ effects[w] = {}
        /\ result[w].status = "indexed"
        /\ result[w] = filings[AccessionOf(w)]
        /\ index # {}

\* C4 as stated: after a failure of ingest_filing behind the creation or
\* reuse of the Filing row, the Filing is in status downloading or indexing.
C4_FailureLeavesNonTerminal ==
    \A w \in Workers :
        pc[w] = "raised" => filings[AccessionOf(w)].status \in {"downloading", "indexing"}

\* C4 as amended: a failure before the final commit has taken effect leaves
\* the status of the Filing as it was, never failed: it is downloading
\* unless a concurrent ingest_filing of the same accession number has indexed
\* the Filing (then the Filing links a document of that other call); and the
\* document record and the index entries written before the failure stay.
C4_FailureChangesNoStatus ==
    \A w \in Workers :
        pc[w] = "raised" =>
          LET f == filings[AccessionOf(w)] IN
            /\ f.id # 0
            /\ f.status \in {"downloading", "indexed"}
            /\ (f.status = "indexed" /\ err[w] # "refresh") =>
                  (f.document_id # NoDoc /\ f.document_id # doc[w])
            /\ ("document" \in effects[w]) =>
                  (doc[w] \in 1..Len(documents)
                     /\ documents[doc[w]].filename = AccessionOf(w))
            /\ ("index" \in effects[w]) => ChunkIds(doc[w], nchunks[w]) \subseteq index

\* C4 witness: the embedding has failed after the document record was
\* created, and the Filing is still downloading.
C4_Witness ==
    \E w \in Workers :
        /\ pc[w] = "raised"
        /\ err[w] = "embed"
        /\ doc[w] # NoDoc
        /\ filings[AccessionOf(w)].status = "downloading"

\* C5: a Filing that becomes indexed has been in status indexing before.
C5_IndexedAfterIndexing ==
    [][\A a \in Accessions :
          (filings'[a].status = "indexed" /\ filings[a].status # "indexed") =>
            filings[a].status = "indexing"]_vars

C7_AttemptsCountClaims == \A j \in JobIds : jobs[j].attempts = claimCount[j]

\* C8: a claim_next_pending call on a queue with no pending job returns no
\* job and changes no job; a call on a queue with a pending job reads a
\* pending job, and never a job that an earlier call has returned.
C8_ClaimOnlyPending ==
    [][\A w \in Workers :
          (pc[w] = "idle" /\ (pc'[w] # "idle" \/ ret'[w] # ret[w])) =>
            IF PendingJobs = {}
            THEN pc'[w] = "idle" /\ ret'[w] = "false" /\ jobs' = jobs
            ELSE /\ pc'[w] = "selected"
                 /\ sel'[w].id \in PendingJobs
                 /\ claimCount[sel'[w].id] = 0]_vars

\* C8 witness: the only job has been claimed once, and a later call has
\* returned no job.
C8_Witness ==
    \E w \in Workers :
        /\ Len(jobs) = 1
        /\ claimCount[1] = 1
        /\ pc[w] = "idle"
        /\ ret[w] = "false"

\* C9: claim_next_pending reads a pending job with the earliest created_at:
\* a pending job is never passed over for one that was created later.
C9_OldestPendingFirst ==
    [][\A w \in Workers :
          (pc[w] = "idle" /\ pc'[w] = "selected") =>
            /\ sel'[w].id \in PendingJobs
            /\ \A k \in PendingJobs :
                 jobs[sel'[w].id].created_at <= jobs[k].created_at]_vars

\* C9 witness: a caller holds the older of two jobs while the younger one
\* is still pending.
C9_Witness ==
    \E w \in Workers, k \in JobIds :
        /\ pc[w] = "selected"
        /\ jobs[k].status = "pending"
        /\ jobs[sel[w].id].created_at < jobs[k].created_at

\* C10 as stated: two consecutive requests of one client start at least
\* 1 / SEC_RATE_LIMIT_PER_SEC apart.
C10_SpacedByConfiguredRate ==
    prevStart # NoTime => (lastStart - prevStart) * rate2 >= 2 * TicksPerSec

\* C10 as amended: two consecutive requests of one client, whatever their
\* kinds, start at least 1 / max(1, SEC_RATE_LIMIT_PER_SEC) apart.
C10_SpacedByClampedRate ==
    prevStart # NoTime => (lastStart - prevStart) * Max(2, rate2) >= 2 * TicksPerSec

\* C10 witness: with a configured rate of 0.5 per second, a document fetch
\* has started one second after a search.
C10_Witness ==
    /\ rate2 = 1
    /\ prevStart # NoTime
    /\ lastStart - prevStart = TicksPerSec
    /\ lastKind = <<"search", "document">>

\* C11: within one process, two consecutive requests to the archive,
\* whichever handlers send them, start at least the minimum interval
\* 1 / max(1, SEC_RATE_LIMIT_PER_SEC) apart.
C11_ProcessRequestsSpaced ==
    (prevStart # NoTime /\ lastKind[2] # "none") =>
        (lastStart - prevStart) * RateLimit2(rate2) >= 2 * TicksPerSec

\* C12: while one task is inside the throttle's wait, every other task that
\* has a step to take can take it.
C12_WaitDelaysOnlyCaller ==
    \A t \in Tasks :
        task[t].phase = "sleeping" =>
            \A u \in Tasks \ {t} :
                task[u].phase \in {"ready", "awaiting"} => ENABLED TaskStep(u)

\* C13: a call of get_filing_index or download_primary_filing_html raises
\* the format error exactly when its accession number is not 10 to 25
\* characters of digits and dashes; an accepted value holds no slash, no
\* backslash and no ".."; "../../etc/passwd" and "abc" are rejected and
\* "0001193125-24-012345" is accepted; a rejected call builds no cache path
\* and no URL, reads no file and sends no request.
C13_SanitizedBeforeUse ==
    trace # <<>> =>
        LET rejected == dpc = "raised" /\ derr = "Invalid accession number format"
            wellFormed == /\ Len(accession) \in 10..25
                          /\ \A i \in 1..Len(accession) :
                               accession[i] \in {"0", "1", "2", "3", "4", "5", "6", "7",
                                                 "8", "9", "-"}
        IN /\ rejected <=> ~wellFormed
           /\ ~rejected =>
                 /\ \A i \in 1..Len(accession) : accession[i] \notin {"/", "\\"}
                 /\ \A i \in 1..(Len(accession) - 1) :
                      ~(accession[i] = "." /\ accession[i + 1] = ".")
           /\ accession \in {<<".", ".", "/", ".", ".", "/", "e", "t", "c", "/", "p", "a", "s", "s", "w", "d">>,
                             <<"a", "b", "c">>} => rejected
           /\ accession = <<"0", "0", "0", "1", "1", "9", "3", "1", "2", "5", "-", "2", "4", "-", "0", "1", "2", "3", "4", "5">>
                 => ~rejected
           /\ rejected => (Len(trace) = 1 /\ trace[1].op = "call" /\ html = NoBody)
           /\ \A i \in 1..Len(trace) :
                 trace[i].op \in {"path", "read", "get", "write"} => wellFormed

\* C13 witness: download_primary_filing_html has rejected "../../etc/passwd".
C13_Witness ==
    /\ accession = <<".", ".", "/", ".", ".", "/", "e", "t", "c", "/", "p", "a", "s", "s", "w", "d">>
    /\ InDownload
    /\ dpc = "raised"
    /\ derr = "Invalid accession number format"

\* C14: an ingest_filing call that fails on a malformed accession number
\* has created no Company and no Filing, has sent no request and has written
\* no document record and no index entry.
C14_MalformedNoSideEffect ==
    \A w \in Workers :
        (pc[w] = "raised" /\ ~SanitizeAccepts(AccessionChars(AccessionOf(w)))) =>
            /\ filings[AccessionOf(w)] = NoFiling
            /\ Zfill10(jobs[job[w]].cik) \notin companies
            /\ effects[w] = {}
            /\ doc[w] = NoDoc

C16_ErrorsRaised ==
    InDownload =>
        /\ \A i \in 1..Len(trace) :
              (trace[i].op = "get" /\ trace[i].status \in {"500", "timeout"}) =>
                 /\ i = Len(trace)
                 /\ dpc = "raised"
                 /\ derr = trace[i].status
        /\ (/\ Len(Requests) >= 1
            /\ Requests[1].status = "200"
            /\ \A i \in 1..Len(DocumentRequests) : DocumentRequests[i].status = "404") =>
              /\ dpc = "raised"
              /\ Len(DocumentRequests) = Len(candidates)
              /\ derr = IF Len(DocumentRequests) = 0
                        THEN "No primary document found in filing index"
                        ELSE "No downloadable primary document found in filing index"
        /\ dpc = "raised" =>
              /\ html = NoBody
              /\ SelectSeq(trace, IsWrite) = <<>>
              /\ firstBody = NoBody => files = {}

\* C16 witness: the first candidate was answered with 404 and the second
\* with a server error, which the call has raised; nothing is cached.
C16_Witness ==
    /\ InDownload
    /\ dpc = "raised"
    /\ derr = "500"
    /\ Len(DocumentRequests) = 2
    /\ Len(candidates) > 2
    /\ DocumentRequests[1].status = "404"
    /\ files = {}

C18_ChunksWithinSize ==
    cpc \in {"sentence_returned", "fixed_returned"} =>
        \A i \in 1..Len(chunks) : Len(chunks[i]) <= chunk_size

\* C19: the chunks of the sentence strategy are windows of the list of the
\* non-empty sentences of the text, joined by blanks: the first window
\* begins at the first sentence, every next window begins no later than
\* right behind the window before it and neither begins nor ends before
\* it, and the last window ends at the last sentence.  The chunks of the
\* fixed strategy are the stripped windows text[start:end], with starts
\* that increase from 0, every start at most the end before it, and the
\* last end at or behind the end of the text, so that every character that
\* is no blank lies in a chunk.
C19_ChunksCoverText ==
    /\ cpc = "sentence_returned" =>
          LET S == Sentences(text)
              n == Len(chunks)
          IN /\ S = <<>> => n = 0
             /\ S # <<>> =>
                   \E a \in [1..n -> 1..Len(S)], b \in [1..n -> 1..Len(S)] :
                       /\ n >= 1
                       /\ a[1] = 1
                       /\ b[n] = Len(S)
                       /\ \A i \in 1..n :
                             /\ a[i] <= b[i]
                             /\ chunks[i] = Join(SubSeq(S, a[i], b[i]))
                       /\ \A i \in 1..(n - 1) :
                             /\ a[i] <= a[i + 1]
                             /\ a[i + 1] <= b[i] + 1
                             /\ b[i] <= b[i + 1]
    /\ cpc = "fixed_returned" =>
          LET n == Len(chunks)
          IN /\ Len(parts) = n
             /\ text # <<>> => (n >= 1 /\ parts[1][1] = 0 /\ parts[n][2] >= Len(text))
             /\ \A i \in 1..n :
                   /\ parts[i][1] >= 0
                   /\ parts[i][1] < parts[i][2]
                   /\ chunks[i] = Strip(SubSeq(text, parts[i][1] + 1,
                                               Min(parts[i][2], Len(text))))
             /\ \A i \in 1..(n - 1) :
                   /\ parts[i][1] < parts[i + 1][1]
                   /\ parts[i + 1][1] <= parts[i][2]
             /\ \A p \in 1..Len(text) :
                   text[p] # " " =>
                      \E i \in 1..n :
                          /\ parts[i][1] < p
                          /\ p <= parts[i][2]
                          /\ \E q \in 1..Len(chunks[i]) : chunks[i][q] = text[p]

\* C19 witness: the fixed strategy has returned two chunks of a text, the
\* first one cut at a blank and the second one beginning inside the first.
C19_Witness ==
    /\ cpc = "fixed_returned"
    /\ Len(chunks) = 2
    /\ chunk_overlap > 0
    /\ parts[1][2] < chunk_size
    /\ parts[2][1] < parts[1][2]
    /\ chunks[1] # <<>>
    /\ chunks[2] # <<>>

\* C20: for the sentence strategy with overlap > 0 and more than one chunk,
\* chunk i+1 begins with the longest run of sentences at the end of chunk i
\* whose lengths add up to at most the overlap, in their order; when the
\* last sentence of chunk i is no longer than the overlap, that run is not
\* empty, so the two chunks share a sentence.
C20_OverlapSeedsNextChunk ==
    (cpc = "sentence_returned" /\ chunk_overlap > 0 /\ Len(chunks) > 1) =>
        \A i \in 1..(Len(chunks) - 1) :
            LET A == parts[i]
                B == parts[i + 1]
                tail(j) == SubSeq(A, Len(A) - j + 1, Len(A))
                k == CHOOSE j \in 0..Len(A) :
                        /\ SumLen(tail(j)) <= chunk_overlap
                        /\ \A m \in 0..Len(A) : SumLen(tail(m)) <= chunk_overlap => m <= j
            IN /\ chunks[i] = Join(A)
               /\ chunks[i + 1] = Join(B)
               /\ Len(B) > k
               /\ SubSeq(B, 1, k) = tail(k)
               /\ Len(A[Len(A)]) <= chunk_overlap =>
                     (k >= 1 /\ B[k] = A[Len(A)])

\* C20 witness: the second chunk begins with the last sentence of the
\* first one, which has another sentence before it, and goes on behind it.
C20_Witness ==
    /\ cpc = "sentence_returned"
    /\ chunk_overlap > 0
    /\ Len(chunks) > 1
    /\ Len(parts[1]) > 1
    /\ Len(parts[2]) > 1
    /\ parts[2][1] = parts[1][Len(parts[1])]

\* C21: while the fixed strategy runs with 0 <= overlap < size, every pass
\* of its loop moves the window start strictly forward, so the loop ends
\* after at most len(text) passes.
C21_FixedStartAdvances ==
    [][(/\ cpc = "fixed"
        /\ 0 <= chunk_overlap
        /\ chunk_overlap < chunk_size
        /\ start < Len(text)) => start' > start]_vars

\* C22: for every strategy, process_text returns an empty chunk list only
\* when the input text is empty, and the chunk at position k (0-based)
\* carries k as its index in its metadata.
C22_EmptyOnlyForEmptyText ==
    cpc \in {"sentence_returned", "fixed_returned", "token_returned"} =>
        /\ processed = <<>> => text = <<>>
        /\ Len(processed) = Len(chunks)
        /\ \A i \in 1..Len(processed) :
              /\ processed[i].content = chunks[i]
              /\ processed[i].metadata.chunk_index = i - 1
              /\ processed[i].chunk_index = i - 1

\* C22, amended: for every strategy, a process_text call that returns
\* returns an empty chunk list only when the input text is empty or, with
\* the sentence strategy, has no character other than white space, and the
\* chunk at position k (0-based) carries k as its index in its metadata.
C22_EmptyOnlyForBlankText ==
    cpc \in {"sentence_returned", "fixed_returned", "token_returned"} =>
        /\ processed = <<>> =>
              \/ text = <<>>
              \/ /\ cpc = "sentence_returned"
                 /\ \A p \in 1..Len(text) : IsSpace(text[p])
        /\ Len(processed) = Len(chunks)
        /\ \A i \in 1..Len(processed) :
              /\ processed[i].content = chunks[i]
              /\ processed[i].metadata.chunk_index = i - 1
              /\ processed[i].chunk_index = i - 1

\* C22 witness: process_text has returned three chunks of a text.
C22_Witness ==
    /\ cpc \in {"sentence_returned", "fixed_returned", "token_returned"}
    /\ Len(processed) = 3
    /\ processed[3].metadata.chunk_index = 2
    /\ processed[1].content # <<>>

\* C23: in both backends an add_documents call with a batch in which some
\* document has no embedding raises a ValueError and leaves the stored
\* documents as they were, so that count() and every search return what
\* they returned before the call.
C23_MissingEmbeddingStoresNothing ==
    [][(/\ vcall'.name = "add_documents"
        /\ \E i \in 1..Len(vcall'.documents) :
              vcall'.documents[i].embedding = NoEmbedding)
          => /\ vret'.raised \in {"ValueError: missing embedding",
                                  "ValueError: missing document_id in metadata",
                                  "ValueError: badly formed hexadecimal UUID string"}
             /\ vret'.ids = <<>>
             /\ Len(table') = Len(table)
             /\ table' = table]_vars

\* C23 witness: PgVectorStore holds documents and has refused a batch whose
\* first document was good and whose second one had no embedding.
C23_Witness ==
    /\ provider = "pgvector"
    /\ Len(table) > 0
    /\ vcall.name = "add_documents"
    /\ Len(vcall.documents) = 2
    /\ vcall.documents[1].embedding # NoEmbedding
    /\ PgAddError(vcall.documents[1]) = NoError
    /\ vcall.documents[2].embedding = NoEmbedding
    /\ vret.raised = "ValueError: missing embedding"

\* C24: in both backends a search returns at most top_k results, and the
\* score of every result is at least the score of the result behind it.
C24_SearchOrdered ==
    vcall.name = "search" =>
        /\ Len(vret.results) <= vcall.top_k
        /\ \A i \in 1..(Len(vret.results) - 1) :
              ScoreGeq(vret.results[i].score, vret.results[i + 1].score)

\* C24 witness: a search with top_k = 2 over three stored documents has
\* returned two results, the second with a smaller score than the first.
C24_Witness ==
    /\ provider = "pgvector"
    /\ vcall.name = "search"
    /\ vcall.top_k = 2
    /\ vcall.filter = NoFilter
    /\ Len(table) = 3
    /\ Len(vret.results) = 2
    /\ ~ScoreGeq(vret.results[2].score, vret.results[1].score)

\* C25: every result of a search with a filter satisfies every key of the
\* filter: filed_date_from and filed_date_to bound the filed date of the
\* result from below and from above, both inclusive, and every other key
\* is a metadata key that the result has with the value of the filter.
C25_ResultsSatisfyFilter ==
    vcall.name = "search" =>
        \A i \in 1..Len(vret.results) :
            LET metadata == vret.results[i].metadata
                filter == vcall.filter
            IN \A k \in DOMAIN filter :
                  IF k = "filed_date_from"
                  THEN /\ FiledDate(metadata) # NoDate
                       /\ FiledDate(metadata) >= filter[k]
                  ELSE IF k = "filed_date_to"
                  THEN /\ FiledDate(metadata) # NoDate
                       /\ FiledDate(metadata) <= filter[k]
                  ELSE Get(metadata, k) = filter[k]

\* C25, amended: every result of a PgVectorStore search satisfies the keys
\* document_id, source_type, form_type, cik and accession_number of the
\* filter by exact match and its keys filed_date_from and filed_date_to as
\* an inclusive range of the filed date, all of them together; other keys
\* of the filter are not looked at.  Every result of a ChromaVectorStore
\* search has every key of the filter in its metadata with the value of
\* the filter.  So a search filtered to the form type "10-K" returns only
\* results whose form type is "10-K".
C25_ResultsSatisfyColumnFilter ==
    vcall.name = "search" =>
        \A i \in 1..Len(vret.results) :
            LET metadata == vret.results[i].metadata
                filter == vcall.filter
            IN /\ provider = "pgvector" =>
                     /\ \A k \in DOMAIN filter \cap
                                 {"document_id", "source_type", "form_type", "cik",
                                  "accession_number"} :
                           Get(metadata, k) = filter[k]
                     /\ "filed_date_from" \in DOMAIN filter =>
                           /\ FiledDate(metadata) # NoDate
                           /\ FiledDate(metadata) >= filter["filed_date_from"]
                     /\ "filed_date_to" \in DOMAIN filter =>
                           /\ FiledDate(metadata) # NoDate
                           /\ FiledDate(metadata) <= filter["filed_date_to"]
               /\ provider = "chroma" =>
                     \A k \in DOMAIN filter :
                         k \in DOMAIN metadata /\ metadata[k] = filter[k]
               /\ "form_type" \in DOMAIN filter =>
                     Get(metadata, "form_type") = filter["form_type"]

\* C25 witness: PgVectorStore holds documents of the form types 10-K and
\* 10-Q, and a search filtered to 10-K has returned a result.
C25_Witness ==
    /\ provider = "pgvector"
    /\ vcall.name = "search"
    /\ "form_type" \in DOMAIN vcall.filter
    /\ vcall.filter["form_type"] = "10-K"
    /\ \E i \in 1..Len(table) : table[i].form_type = "10-Q"
    /\ \E i \in 1..Len(table) : table[i].form_type = "10-K"
    /\ Len(vret.results) > 0

\* C26: add_documents returns the ids of the caller; for an id that an add
\* has returned and no delete has been given since, get_by_id returns the
\* document with that id and the content added under it, and for an id
\* given to delete and not added since it returns nothing; every search
\* result carries the id and the content of a document added and not
\* deleted.
C26_StoredUnderCallerId ==
    /\ (vcall.name = "add_documents" /\ vret.raised = NoError) =>
          vret.ids = [i \in 1..Len(vcall.documents) |-> vcall.documents[i].id]
    /\ vcall.name = "get_by_id" =>
          LET id == vcall.ids[1]
          IN IF \E p \in live : p[1] = id
             THEN /\ Len(vret.document) = 1
                  /\ vret.document[1].id = id
                  /\ <<id, vret.document[1].content>> \in live
             ELSE vret.document = <<>>
    /\ vcall.name = "search" =>
          \A i \in 1..Len(vret.results) :
              <<vret.results[i].id, vret.results[i].content>> \in live

\* C27: once the context of a request is built, its chunks are the contents
\* of the first n search results, in order and whole, where n is the
\* greatest number of leading results whose lengths sum to at most
\* context_window; the sources returned are as many and sources[i].content
\* is chunk i.
C27_ContextIsLongestPrefix ==
    \A q \in RagTasks :
        rag[q].pc \in {"completing", "returned"} =>
            LET found == rag[q].search_results
                n == Len(rag[q].context)
            IN /\ n <= Len(found)
               /\ \A i \in 1..n : rag[q].context[i] = found[i].content
               /\ TotalLength(found, n) <= context_window
               /\ n < Len(found) => TotalLength(found, n + 1) > context_window
               /\ rag[q].pc = "returned" =>
                      /\ Len(rag[q].sources) = n
                      /\ \A i \in 1..n : rag[q].sources[i].content = rag[q].context[i]

\* A request has returned with a context that holds some of the results
\* found and leaves out a result that would fit after the one that did not.
C27_Witness ==
    \E q \in RagTasks :
        /\ rag[q].pc = "returned"
        /\ Len(rag[q].context) = 1
        /\ Len(rag[q].search_results) = 3
        /\ Len(rag[q].search_results[3].content) + 1 <= context_window
        /\ Len(rag[q].sources) = 1

\* C28: a request for which neither the header X-OpenAI-Key nor
\* OPENAI_API_KEY gives an embedding key makes no embedding call and no
\* search and builds a prompt without context; it calls the completion
\* provider once and returns empty context and sources, and no error is
\* raised for the missing embedding key.
C28_NoCredentialSkipsRetrieval ==
    \A q \in RagTasks :
        (/\ rag[q].pc \in {"embedding", "completing", "returned", "raised"}
         /\ ~Truthy(rag[q].request.openai_key)
         /\ ~Truthy(config.OPENAI_API_KEY)) =>
            /\ rag[q].pc # "embedding"
            /\ rag[q].embed_calls = 0
            /\ rag[q].search_top_k = NoSearch
            /\ rag[q].prompt \in {"system", "question"}
            /\ rag[q].context = <<>>
            /\ rag[q].sources = <<>>
            /\ rag[q].error # NoError =>
                   \/ config.LLM_PROVIDER = "openai"
                   \/ ~Truthy(config.ANTHROPIC_API_KEY)
            /\ rag[q].error = NoError => rag[q].ask_calls = 1

\* C28 as the code has it: when the embedding provider is "openai" and
\* neither the header X-OpenAI-Key nor OPENAI_API_KEY gives a key, the
\* request makes no embedding call and no search and builds a prompt
\* without context; it raises only when the completion provider has no
\* key either, and otherwise calls the completion provider once and returns
\* empty context and sources.
C28_OpenAINoCredentialSkipsRetrieval ==
    \A q \in RagTasks :
        (/\ rag[q].pc \in {"embedding", "completing", "returned", "raised"}
         /\ config.EMBEDDING_PROVIDER = "openai"
         /\ ~Truthy(rag[q].request.openai_key)
         /\ ~Truthy(config.OPENAI_API_KEY)) =>
            /\ rag[q].pc # "embedding"
            /\ rag[q].embed_calls = 0
            /\ rag[q].search_top_k = NoSearch
            /\ rag[q].prompt \in {"system", "question"}
            /\ rag[q].context = <<>>
            /\ rag[q].sources = <<>>
            /\ rag[q].error # NoError =>
                   \/ config.LLM_PROVIDER = "openai"
                   \/ ~Truthy(config.ANTHROPIC_API_KEY)
            /\ rag[q].error = NoError => rag[q].ask_calls = 1

\* A request without any OpenAI key has returned from the completion with
\* no context, while the index holds results for its question.
C28_Witness ==
    \E q \in RagTasks :
        /\ rag[q].pc = "returned"
        /\ config.EMBEDDING_PROVIDER = "openai"
        /\ ~Truthy(rag[q].request.openai_key)
        /\ ~Truthy(config.OPENAI_API_KEY)
        /\ ranking # <<>>
        /\ rag[q].ask_calls = 1
        /\ rag[q].context = <<>>

\* C29: whatever the other request does in between, the search made for a
\* request that gave a top_k is made with that top_k.
C29_SearchUsesOwnTopK ==
    \A q \in RagTasks :
        (rag[q].search_top_k # NoSearch /\ rag[q].request.top_k # 0) =>
            rag[q].search_top_k = rag[q].request.top_k

\* C30: after every call of get_llm_client or get_embedding_model the
\* cached objects hold the key of the configuration, if any, and no other;
\* a call that gives a key returns an object made with that key and leaves
\* both caches as they were; a call that gives no key never returns an
\* object made with a key of a caller.
C30_CacheHoldsOnlyConfigCredential ==
    [][/\ llm_client' # NoClient =>
             /\ Truthy(llm_client'.api_key)
             /\ llm_client'.api_key =
                    IF llm_client'.provider_name = "openai"
                    THEN config.OPENAI_API_KEY ELSE config.ANTHROPIC_API_KEY
       /\ embedding_model' # NoClient =>
             IF embedding_model'.class = "LocalEmbeddings"
             THEN embedding_model'.api_key = None
             ELSE /\ Truthy(embedding_model'.api_key)
                  /\ embedding_model'.api_key = config.OPENAI_API_KEY
       /\ (Truthy(gcall'.api_key) /\ gret'.error = NoError) =>
             /\ gret'.client.api_key = gcall'.api_key
             /\ llm_client' = llm_client
             /\ embedding_model' = embedding_model
       /\ (~Truthy(gcall'.api_key) /\ gret'.error = NoError) =>
             gret'.client.api_key \notin CallerKeys]_vars

\* C30 as the code has it: the cached LLM client and a cached
\* OpenAIEmbeddings hold the key of the configuration, a cached
\* LocalEmbeddings holds no key; a call that gives a key for the providers
\* "openai" or "anthropic" returns an object made with that key and leaves
\* both caches as they were; a call for the embedding provider "local"
\* returns the cached LocalEmbeddings, key given or not; no call returns
\* or caches an object with a key of a caller unless that call gave the
\* key, and none caches one at all.
C30_CacheHoldsNoCallerCredential ==
    [][/\ llm_client' # NoClient =>
             /\ Truthy(llm_client'.api_key)
             /\ llm_client'.api_key =
                    IF llm_client'.provider_name = "openai"
                    THEN config.OPENAI_API_KEY ELSE config.ANTHROPIC_API_KEY
       /\ embedding_model' # NoClient =>
             IF embedding_model'.class = "LocalEmbeddings"
             THEN embedding_model'.api_key = None
             ELSE /\ Truthy(embedding_model'.api_key)
                  /\ embedding_model'.api_key = config.OPENAI_API_KEY
       /\ (Truthy(gcall'.api_key) /\ gret'.error = NoError) =>
             IF gret'.client.class = "LocalEmbeddings"
             THEN /\ gret'.client = embedding_model'
                  /\ llm_client' = llm_client
             ELSE /\ gret'.client.api_key = gcall'.api_key
                  /\ llm_client' = llm_client
                  /\ embedding_model' = embedding_model
       /\ (~Truthy(gcall'.api_key) /\ gret'.error = NoError) =>
             gret'.client.api_key \notin CallerKeys]_vars

\* get_llm_client has been called with a key of a caller for the provider
\* of the cached client, and has returned a client with that key.
C30_Witness ==
    /\ llm_client # NoClient
    /\ embedding_model # NoClient
    /\ gcall.function = "get_llm_client"
    /\ gcall.api_key \in CallerKeys
    /\ gret.error = NoError
    /\ gret.client.provider_name = llm_client.provider_name
    /\ gret.client.api_key = gcall.api_key

C38_EveryJobFinishes ==
    /\ \A j \in 1..MaxJobs :
          (Len(jobs) >= j) ~>
              (/\ Len(jobs) >= j
               /\ claimCount[j] >= 1
               /\ jobs[j].status \in {"completed", "failed"})
    /\ \A j \in 1..MaxJobs :
          (Len(jobs) >= j /\ jobs[j].status = "running") ~>
              (Len(jobs) >= j /\ jobs[j].status # "running")
    /\ [](worker = "sleeping" => ret["w1"] = "false")
    /\ [][(ret'["w1"] = "false" /\ ret["w1"] # "false") => PendingJobs = {}]_vars

\* Both jobs are finished, each claimed once, and the worker sleeps.
C38_Witness ==
    /\ Len(jobs) = MaxJobs
    /\ \A j \in JobIds : jobs[j].status \in {"completed", "failed"} /\ claimCount[j] = 1
    /\ \E j \in JobIds : jobs[j].status = "failed"
    /\ worker = "sleeping"

\* C37: once the Filing of an accession number is indexed, the vector index
\* holds as many entries of documents with that accession number as the
\* chunks_count of the document linked to the Filing.
C37_IndexHoldsEachChunkOnce ==
    \A a \in Accessions :
        filings[a].status = "indexed" =>
            Cardinality({e \in index : documents[e[1]].filename = a})
                = documents[filings[a].document_id].chunks_count


(***************************************************************************)
(* RateLimiter.allow.  A call is placed at the time it returns.            *)
(***************************************************************************)
\* The allowed calls of an identifier that returned at a time in lo..hi,
\* among the first n calls that returned.
AllowedIn(identifier, lo, hi, n) ==
    {k \in 1..n : /\ verdicts[k].identifier = identifier
                  /\ verdicts[k].allowed
                  /\ verdicts[k].at \in lo..hi}

\* C34: for every identifier the calls of allow that return true inside any
\* interval of window_seconds number at most max_requests, also when the
\* calls come from several threads; a call returns false only when
\* max_requests allowed calls of its identifier lie within the last
\* window_seconds and true only when fewer do; and a call for one
\* identifier leaves the deque of every other identifier alone.
C34_AtMostMaxRequestsPerWindow ==
    /\ [](\A identifier \in Identifiers, t0 \in 0..MaxTicks :
            Cardinality(AllowedIn(identifier, t0, t0 + window_seconds - 1,
                                  Len(verdicts))) <= max_requests)
    /\ [](\A k \in 1..Len(verdicts) :
            LET v == verdicts[k]
            IN IF v.allowed
               THEN Cardinality(AllowedIn(v.identifier, v.at - window_seconds + 1,
                                          v.at, k - 1)) < max_requests
               ELSE Cardinality(AllowedIn(v.identifier, v.at - window_seconds,
                                          v.at, k - 1)) >= max_requests)
    /\ [][\A t \in Threads, identifier \in Identifiers :
            (allowing[t].pc = "read" /\ allowing'[t].pc = "idle"
             /\ allowing[t].identifier # identifier)
            => buckets'[identifier] = buckets[identifier]]_vars

\* C35: once allow has denied an identifier, a later call for it returns
\* true whenever fewer than max_requests of its allowed calls are younger
\* than window_seconds (here: no older than window_seconds, which the
\* statement implies); and a denied call is not counted: the deque of an
\* identifier holds one stamp for every allowed call that is left and none
\* for a denied call.
C35_AllowsAgainAfterWindow ==
    /\ \A k \in 1..Len(verdicts) :
          LET v == verdicts[k]
          IN (/\ \E d \in 1..(k - 1) : /\ verdicts[d].identifier = v.identifier
                                       /\ ~verdicts[d].allowed
              /\ Cardinality(AllowedIn(v.identifier, v.at - window_seconds,
                                       v.at, k - 1)) < max_requests)
             => v.allowed
    /\ \A identifier \in Identifiers :
          Len(buckets[identifier])
             <= Cardinality(AllowedIn(identifier, 0, MaxTicks, Len(verdicts)))

(***************************************************************************)
(* require_api_key                                                         *)
(***************************************************************************)
\* The key of the request matches a stored key that is active and has not
\* expired.
MatchesStoredKey(api_key) ==
    \E r \in 1..Len(api_keys) :
        /\ api_keys[r].key_hash = HashApiKey(api_key)
        /\ api_keys[r].is_active
        /\ (api_keys[r].expires_at = NoExpiry \/ api_keys[r].expires_at > utcnow)

\* C36: require_api_key admits a request exactly when debug mode is on and
\* no environment key is configured, or the presented key equals the
\* environment key, or its hash matches a stored key that is active and not
\* expired; a missing key is rejected with 401 "Missing API key", every
\* other key that does not match with 401 "Invalid API key"; and
\* last_used_at of a stored key changes only when the request was admitted
\* by the match with that key.
C36_AdmitsExactlyMatchingKeys ==
    [][auth'.n # auth.n =>
        LET api_key == auth'.api_key
            admitted == auth'.outcome \in {"returned", "returned by stored key"}
            by_debug == DEBUG /\ API_KEY = <<>>
            by_env == api_key # <<>> /\ api_key = API_KEY
            by_store == api_key # <<>> /\ MatchesStoredKey(api_key)
        IN /\ admitted <=> (by_debug \/ by_env \/ by_store)
           /\ ~admitted =>
                 auth'.outcome = IF api_key = <<>> THEN "401 Missing API key"
                                 ELSE "401 Invalid API key"
           /\ \A r \in 1..Len(api_keys) :
                 api_keys'[r] # api_keys[r] =>
                    /\ ~by_debug /\ ~by_env /\ by_store
                    /\ api_keys[r].key_hash = HashApiKey(api_key)
                    /\ api_keys'[r] = [api_keys[r] EXCEPT !.last_used_at = utcnow]
    ]_vars

(***************************************************************************)
(* extract_sections                                                        *)
(***************************************************************************)
\* The text from the idx-th marker of t to the next marker or to the end
\* of t, without the white space at its ends.
Segment(t, idx) ==
    LET matches == FindIter(t)
    IN StripWhite(SubSeq(t, matches[idx],
                         IF idx < Len(matches) THEN matches[idx + 1] - 1 ELSE Len(t)))

\* C33: extract_sections never returns an empty list; either every section
\* it returns starts at an "Item <number><optional letter>" marker, which
\* is its title, runs to the next marker or to the end of the text and has
\* at least 200 characters, or no such segment exists and the result is
\* the one section "Full Document" with the whole input as its text.
C33_SectionsOrFullDocument ==
    ppc = "returned" =>
       /\ sections # <<>>
       /\ \/ \A i \in 1..Len(sections) :
                \E idx \in 1..Len(FindIter(filing_text)) :
                   /\ sections[i].text = Segment(filing_text, idx)
                   /\ MatchEnd(sections[i].text, 1) # 0
                   /\ sections[i].title
                         = ReplaceNewlines(SubSeq(sections[i].text, 1,
                                                  MatchEnd(sections[i].text, 1) - 1))
                   /\ Len(sections[i].text) >= 200
          \/ /\ \A idx \in 1..Len(FindIter(filing_text)) :
                   Len(Segment(filing_text, idx)) < 200
             /\ sections = FullDocument(filing_text)

\* A first marker whose section is too short is left out and the second,
\* of exactly 200 characters, is returned.
C33_Witness ==
    /\ ppc = "returned"
    /\ Len(FindIter(filing_text)) = 2
    /\ Len(Segment(filing_text, 1)) < 200
    /\ Len(sections) = 1
    /\ sections[1].text = Segment(filing_text, 2)
    /\ Len(sections[1].text) = 200

(***************************************************************************)
(* ResearchAgent.run                                                       *)
(***************************************************************************)
\* C32: a failure while one candidate filing is ingested does not abort
\* the others: once the search has returned and the run has left the
\* loop for good, ingest_filing has been called for every candidate with an
\* accession number, in the order of the search results, and the run has
\* gone on to retrieval.
C32_IngestFailureDoesNotAbort ==
    apc \in {"raised in ingest_filing", "retrieved", "returned",
             "raised in query_async", "raised in compare"}
       => /\ attempted = WithAccession(filing_hits)
          /\ apc # "raised in ingest_filing"

(***************************************************************************)
(* ask_stream                                                              *)
(***************************************************************************)
\* C31: every stream of the streaming completion endpoint is finite and
\* ends with exactly one fragment whose done flag is set, with no fragment
\* behind it; after a stream without failure that fragment has empty
\* content; and when the provider fails, the fragments already produced
\* stay and are followed by a last fragment with done set that carries the
\* error.
C31_StreamEndsWithOneDone ==
    /\ <>(spc = "closed")
    /\ [](\A i \in 1..Len(sse) : sse[i].done <=> (spc = "closed" /\ i = Len(sse)))
    /\ [](spc = "closed" =>
            /\ sse # <<>>
            /\ IF stream_error = "none"
               THEN sse[Len(sse)].content = <<>>
               ELSE sse[Len(sse)].content = <<"Error: ", stream_error>>)
    /\ [][/\ SubSeq(sse', 1, Len(sse)) = sse
          /\ Len(sse') <= Len(sse) + 1
          /\ spc = "closed" => sse' = sse]_vars

\* The provider failed after two fragments had gone out.
C31_Witness ==
    /\ spc = "closed"
    /\ stream_error # "none"
    /\ Len(sse) = 3
    /\ ~sse[1].done /\ ~sse[2].done /\ sse[3].done
====
